---------------------------- MODULE Spec2Model ----------------------------
(***************************************************************************)
(* A model of the compliance filter of the BPI Challenge 2019 scripts      *)
(* (src/compliance_filter.py): the per-category rule checkers, the         *)
(* partitioning of a log by filter_compliance_by_category and the batch    *)
(* driver process_all_categories.                                          *)
(*                                                                         *)
(* Python values are tagged records (Str, Bool, Num); a Python string is   *)
(* the tuple of its characters, so that lower() and the substring test     *)
(* "in" are computed character by character.  A dict is a function whose   *)
(* DOMAIN is its key set.  Monetary amounts are integers counted in        *)
(* hundredths of a euro, which makes the 0.01 tolerance one unit.          *)
(***************************************************************************)
EXTENDS Integers, Sequences, FiniteSets, TLC

(***************************************************************************)
(* Bounds of the model                                                     *)
(***************************************************************************)
MaxEvents == 3      \* events per case
MaxLog == 2         \* cases per log handed to the filter
MaxFiles == 2       \* entries of the input directory
MaxCases == 5       \* cases of the filtered log handed to the "other" export
BATCH_SIZE == 2     \* log_preprocessing.BATCH_SIZE (1000 in the script), scaled down

(***************************************************************************)
(* Python values and strings                                               *)
(***************************************************************************)
Str(s) == [t |-> "str", s |-> s, b |-> FALSE, n |-> 0]
Bool(b) == [t |-> "bool", s |-> <<>>, b |-> b, n |-> 0]
Num(n) == [t |-> "num", s |-> <<>>, b |-> FALSE, n |-> n]

\* str.lower() on one character: the upper-case letters and their lower case
LowerTable ==
    "A" :> "a" @@ "B" :> "b" @@ "C" :> "c" @@ "D" :> "d" @@ "E" :> "e" @@ "F" :> "f"
    @@ "G" :> "g" @@ "H" :> "h" @@ "I" :> "i" @@ "J" :> "j" @@ "K" :> "k" @@ "L" :> "l"
    @@ "M" :> "m" @@ "N" :> "n" @@ "O" :> "o" @@ "P" :> "p" @@ "Q" :> "q" @@ "R" :> "r"
    @@ "S" :> "s" @@ "T" :> "t" @@ "U" :> "u" @@ "V" :> "v" @@ "W" :> "w" @@ "X" :> "x"
    @@ "Y" :> "y" @@ "Z" :> "z"

LowerChar(c) == IF c \in DOMAIN LowerTable THEN LowerTable[c] ELSE c

\* str.lower()
lower(s) == [k \in 1..Len(s) |-> LowerChar(s[k])]

\* the substring test  p in s
contains(s, p) ==
    \/ p = <<>>
    \/ \E k \in 0..(Len(s) - Len(p)) : s[k + 1] = p[1] /\ SubSeq(s, k + 1, k + Len(p)) = p

\* str.startswith / str.endswith
startswith(s, p) == Len(p) <= Len(s) /\ SubSeq(s, 1, Len(p)) = p
endswith(s, p) == Len(p) <= Len(s) /\ SubSeq(s, Len(s) - Len(p) + 1, Len(s)) = p

Digit(d) == <<"0","1","2","3","4","5","6","7","8","9">>[d + 1]

RECURSIVE Digits(_)
Digits(n) == IF n < 10 THEN <<Digit(n)>> ELSE Digits(n \div 10) \o <<Digit(n % 10)>>

\* str(v) for the values a case attribute can hold (amounts are non-negative
\* floats with at most two decimals, stored in hundredths)
py_str(v) ==
    CASE v.t = "str" -> v.s
      [] v.t = "bool" -> IF v.b THEN <<"T","r","u","e">> ELSE <<"F","a","l","s","e">>
      [] v.t = "num" ->
           Digits(v.n \div 100) \o <<".">> \o
           (IF v.n % 10 = 0 THEN <<Digit((v.n % 100) \div 10)>>
            ELSE <<Digit((v.n % 100) \div 10), Digit(v.n % 10)>>)

\* dict.get(key, default)
Get(d, key, default) == IF key \in DOMAIN d THEN d[key] ELSE default

\* whether arithmetic (-, /) accepts the value: float, int and bool do, str raises TypeError
IsNumber(v) == v.t \in {"num", "bool"}
NumberOf(v) == IF v.t = "bool" THEN (IF v.b THEN 100 ELSE 0) ELSE v.n
Abs(x) == IF x < 0 THEN -x ELSE x

(***************************************************************************)
(* Configuration (compliance_filter.py, CONFIGURATION SETTINGS)            *)
(***************************************************************************)
S_RecordGoodsReceipt == <<"R","e","c","o","r","d"," ","G","o","o","d","s"," ","R","e","c","e","i","p","t">>
S_RecordInvoiceReceipt == <<"R","e","c","o","r","d"," ","I","n","v","o","i","c","e"," ","R","e","c","e","i","p","t">>
S_ClearInvoice == <<"C","l","e","a","r"," ","I","n","v","o","i","c","e">>
S_CreatePurchaseOrderItem == <<"C","r","e","a","t","e"," ","P","u","r","c","h","a","s","e"," ","O","r","d","e","r"," ","I","t","e","m">>
S_SetPaymentBlock == <<"S","e","t"," ","P","a","y","m","e","n","t"," ","B","l","o","c","k">>
S_RemovePaymentBlock == <<"R","e","m","o","v","e"," ","P","a","y","m","e","n","t"," ","B","l","o","c","k">>

K_3_way_after == <<"3","_","w","a","y","_","a","f","t","e","r">>
K_3_way_before == <<"3","_","w","a","y","_","b","e","f","o","r","e">>
K_2_way == <<"2","_","w","a","y">>
K_consignment == <<"c","o","n","s","i","g","n","m","e","n","t">>

\* the keys of ITEM_CATEGORIES, in the order the dict literal gives them
ITEM_CATEGORIES == <<K_3_way_after, K_3_way_before, K_2_way, K_consignment>>

ACTIVITY_PATTERNS_INIT ==
    [goods_receipt |-> <<S_RecordGoodsReceipt>>,
     invoice_receipt |-> <<S_RecordInvoiceReceipt>>,
     payment |-> <<S_ClearInvoice>>,
     creation |-> <<S_CreatePurchaseOrderItem>>,
     set_payment_block |-> <<S_SetPaymentBlock>>,
     payment_block_removed |-> <<S_RemovePaymentBlock>>]

(***************************************************************************)
(* State                                                                   *)
(***************************************************************************)
VARIABLES
    ACTIVITY_PATTERNS,   \* the module-level pattern dict
    log,                 \* the log handed to the filter: a sequence of cases
    category_name,       \* the category handed to the filter
    pc,                  \* position inside filter_compliance_by_category / a checker call
    i,                   \* number of cases the filter loop has processed
    is_compliant,        \* the checker's last returned flag
    reasons,             \* the checker's last returned reason list
    compliant_cases,     \* list of (references to) cases, as positions of log
    non_compliant_cases,
    compliance_stats,
    result,              \* what filter_compliance_by_category returned
    verdicts,            \* the (is_compliant, reasons) pairs the loop obtained, in order
    xes_files,           \* the driver's list of input files
    fi,                  \* index of the file the driver is at
    dpc,                 \* position inside process_all_categories
    overall_stats,       \* category -> stats
    saved,               \* the files written by save_log
    journal,             \* per file, the steps the driver carried out on it
    summary,             \* category -> what the final summary reports for it
    arg_activities,      \* a helper call's list of activity names
    arg_first,           \* its (first) pattern list
    arg_second,          \* its second pattern list
    hpc,                 \* which helper has returned
    ret,                 \* what the helper returned
    \* handover_analysis.analyze_handover_pairs(log, category_name)
    case_idx,            \* number of cases the outer loop has finished
    pair_i,              \* the inner loop's i: position of the current event, from 0
    handover_counts,     \* the Counter: (from_role, to_role) -> count
    total_handovers,
    df,                  \* the returned frame: a sequence of rows
    apc,                 \* position inside analyze_handover_pairs
    \* log_preprocessing.process_xes_file, step 5
    filtered_log,        \* the filtered log: a sequence of case ids
    grouped_case_ids,
    incomplete_case_ids,
    other_count,
    other_cases_batch,
    group_other,         \* the file group_other.xes: <<>> while absent, else <<cases>>
    case_pos,            \* number of cases the collecting loop has passed
    ppc,                 \* position inside step 5
    \* handover_preprocessing.split_on_resource_type(input_log, ...)
    input_log,
    sublogs,             \* resource type -> EventLog
    split_other_count,   \* the function's other_count
    trace_idx,           \* number of traces the loop has finished
    exported,            \* the files written by xes_exporter.apply
    split_ret,           \* what the function returned
    spc,                 \* position inside split_on_resource_type
    \* handover_frequency.calculations_per_category, one file's log
    trace_pos,           \* number of traces the loop has passed
    number_of_events,
    one_activity_in_trace,
    between_handovers_per_case,
    inside_handovers_per_case,
    durations_per_case,
    per_category,        \* what the file contributes to the per-category dicts
    fqpc                 \* position inside calculations_per_category

filterVars == <<log, category_name, pc, i, is_compliant, reasons,
                compliant_cases, non_compliant_cases, compliance_stats, result,
                verdicts>>
driverVars == <<xes_files, fi, dpc, overall_stats, saved, journal, summary>>
helperVars == <<arg_activities, arg_first, arg_second, hpc, ret>>
handoverVars == <<case_idx, pair_i, handover_counts, total_handovers, df, apc>>
preprocVars == <<filtered_log, grouped_case_ids, incomplete_case_ids, other_count,
                 other_cases_batch, group_other, case_pos, ppc>>
splitVars == <<input_log, sublogs, split_other_count, trace_idx, exported,
               split_ret, spc>>
frequencyVars == <<trace_pos, number_of_events, one_activity_in_trace,
                   between_handovers_per_case, inside_handovers_per_case,
                   durations_per_case, per_category, fqpc>>
scriptVars == <<handoverVars, preprocVars, splitVars, frequencyVars>>
vars == <<ACTIVITY_PATTERNS, filterVars, driverVars, helperVars, scriptVars>>

(***************************************************************************)
(* Helper functions                                                        *)
(***************************************************************************)
\* get_activity_names: the "concept:name" of every event that has one
RECURSIVE get_activity_names(_)
get_activity_names(events) ==
    IF events = <<>> THEN <<>>
    ELSE LET e == Head(events)
         IN (IF "concept:name" \in DOMAIN e THEN <<e["concept:name"].s>> ELSE <<>>)
            \o get_activity_names(Tail(events))

\* the inner loop with equality in place of the substring test
matches_exact(activity, patterns) ==
    \E k \in 1..Len(patterns) : lower(activity) = lower(patterns[k])

\* the inner loop shared by the pattern helpers: some pattern is a
\* case-insensitive substring of the activity
matches(activity, patterns) ==
    \E k \in 1..Len(patterns) : contains(lower(activity), lower(patterns[k]))

has_activity_pattern(activities, patterns) ==
    \E a \in 1..Len(activities) : matches(activities[a], patterns)

\* get_activity_positions: the 0-based positions, in increasing order
RECURSIVE positions_from(_, _, _)
positions_from(activities, patterns, k) ==
    IF k > Len(activities) THEN <<>>
    ELSE (IF matches(activities[k], patterns) THEN <<k - 1>> ELSE <<>>)
         \o positions_from(activities, patterns, k + 1)

get_activity_positions(activities, patterns) == positions_from(activities, patterns, 1)

\* max() and min() of a non-empty list of numbers
max(l) == CHOOSE x \in {l[k] : k \in 1..Len(l)} : \A k \in 1..Len(l) : l[k] <= x
min(l) == CHOOSE x \in {l[k] : k \in 1..Len(l)} : \A k \in 1..Len(l) : x <= l[k]

\* the constraint comparing the first occurrences only
check_sequence_constraint_first_occurrences(activities, first_patterns, second_patterns) ==
    LET first_positions == get_activity_positions(activities, first_patterns)
        second_positions == get_activity_positions(activities, second_patterns)
    IN IF first_positions = <<>> \/ second_positions = <<>> THEN TRUE
       ELSE min(first_positions) < min(second_positions)

check_sequence_constraint(activities, first_patterns, second_patterns) ==
    LET first_positions == get_activity_positions(activities, first_patterns)
        second_positions == get_activity_positions(activities, second_patterns)
    IN IF first_positions = <<>> \/ second_positions = <<>> THEN TRUE
       ELSE max(first_positions) < min(second_positions)

get_case_attributes(case) == case.attributes

RECURSIVE get_cumulative_values(_)
get_cumulative_values(events) ==
    IF events = <<>> THEN <<>>
    ELSE LET e == Head(events)
         IN (IF "Cumulative net worth (EUR)" \in DOMAIN e
             THEN <<e["Cumulative net worth (EUR)"]>> ELSE <<>>)
            \o get_cumulative_values(Tail(events))

\* get_po_item_value taking the attribute only when it is truthy
get_po_item_value_truthy_attribute(case) ==
    LET attributes == get_case_attributes(case)
        values == get_cumulative_values(case.events)
        present == /\ "PO item value" \in DOMAIN attributes
                   /\ attributes["PO item value"] \notin {Num(0), Bool(FALSE), Str(<<>>)}
    IN IF present THEN attributes["PO item value"]
       ELSE IF values # <<>> THEN values[1]
       ELSE Num(0)

get_po_item_value(case) ==
    LET attributes == get_case_attributes(case)
        values == get_cumulative_values(case.events)
    IN IF "PO item value" \in DOMAIN attributes THEN attributes["PO item value"]
       ELSE IF values # <<>> THEN values[1]
       ELSE Num(0)

count_activity_occurrences(activities, patterns) ==
    Cardinality({a \in 1..Len(activities) : matches(activities[a], patterns)})


\* the tolerance 0.01 of the value comparisons, in hundredths
TOLERANCE == 1

Returned(violations) == [raised |-> FALSE, violations |-> violations]
Raised == [raised |-> TRUE, violations |-> <<>>]

\* the 3-way value check testing the goods-receipt count before the
\* invoice-receipt count
check_3way_value_goods_count_first(case) ==
    LET activities == get_activity_names(case.events)
        po_item_value == get_po_item_value(case)
        invoice_count == count_activity_occurrences(activities, ACTIVITY_PATTERNS.invoice_receipt)
        gr_count == count_activity_occurrences(activities, ACTIVITY_PATTERNS.goods_receipt)
        cumulative_values == get_cumulative_values(case.events)
        final_cumulative_value == cumulative_values[Len(cumulative_values)]
        v_count == IF gr_count # invoice_count
                   THEN <<"Number of goods receipts does not equal number of invoice receipts">>
                   ELSE <<>>
    IN IF gr_count = 0 THEN Returned(<<"No goods receipts found for value validation">>)
       ELSE IF invoice_count = 0 THEN Returned(<<"No invoice receipts found for value validation">>)
       ELSE IF cumulative_values = <<>>
            THEN Returned(v_count \o <<"No cumulative values found for validation">>)
       ELSE IF ~IsNumber(final_cumulative_value) \/ ~IsNumber(po_item_value) THEN Raised
       ELSE LET po == NumberOf(po_item_value)
                final == NumberOf(final_cumulative_value)
            IN Returned(
                 v_count
                 \o (IF Abs(po * invoice_count - final) > TOLERANCE * invoice_count
                     THEN <<"PO item value does not match expected value from invoice receipts">>
                     ELSE <<>>)
                 \o (IF po = 0
                     THEN <<"PO item value is zero, which may indicate invalid data">>
                     ELSE <<>>)
                 \o (IF final = 0 /\ po # 0
                     THEN <<"Cumulative value is zero but PO item value is non-zero">>
                     ELSE <<>>))

\* the 3-way value check comparing the PO item value with the final
\* cumulative value itself
check_3way_value_undivided(case) ==
    LET activities == get_activity_names(case.events)
        po_item_value == get_po_item_value(case)
        invoice_count == count_activity_occurrences(activities, ACTIVITY_PATTERNS.invoice_receipt)
        gr_count == count_activity_occurrences(activities, ACTIVITY_PATTERNS.goods_receipt)
        cumulative_values == get_cumulative_values(case.events)
        final_cumulative_value == cumulative_values[Len(cumulative_values)]
        v_count == IF gr_count # invoice_count
                   THEN <<"Number of goods receipts does not equal number of invoice receipts">>
                   ELSE <<>>
    IN IF invoice_count = 0 THEN Returned(<<"No invoice receipts found for value validation">>)
       ELSE IF gr_count = 0 THEN Returned(<<"No goods receipts found for value validation">>)
       ELSE IF cumulative_values = <<>>
            THEN Returned(v_count \o <<"No cumulative values found for validation">>)
       ELSE IF ~IsNumber(final_cumulative_value) \/ ~IsNumber(po_item_value) THEN Raised
       ELSE LET po == NumberOf(po_item_value)
                final == NumberOf(final_cumulative_value)
            IN Returned(
                 v_count
                 \o (IF Abs(po - final) > TOLERANCE
                     THEN <<"PO item value does not match expected value from invoice receipts">>
                     ELSE <<>>)
                 \o (IF po = 0
                     THEN <<"PO item value is zero, which may indicate invalid data">>
                     ELSE <<>>)
                 \o (IF final = 0 /\ po # 0
                     THEN <<"Cumulative value is zero but PO item value is non-zero">>
                     ELSE <<>>))

\* check_3way_value_compliance.  final_cumulative_value / invoice_count and
\* po_item_value - expected_po_value raise TypeError on a str operand.
\* abs(po_item_value - final_cumulative_value / invoice_count) > 0.01 is
\* computed exactly, multiplied through by invoice_count (which is positive).
check_3way_value_compliance(case) ==
    LET activities == get_activity_names(case.events)
        po_item_value == get_po_item_value(case)
        invoice_count == count_activity_occurrences(activities, ACTIVITY_PATTERNS.invoice_receipt)
        gr_count == count_activity_occurrences(activities, ACTIVITY_PATTERNS.goods_receipt)
        cumulative_values == get_cumulative_values(case.events)
        final_cumulative_value == cumulative_values[Len(cumulative_values)]
        v_count == IF gr_count # invoice_count
                   THEN <<"Number of goods receipts does not equal number of invoice receipts">>
                   ELSE <<>>
    IN IF invoice_count = 0 THEN Returned(<<"No invoice receipts found for value validation">>)
       ELSE IF gr_count = 0 THEN Returned(<<"No goods receipts found for value validation">>)
       ELSE IF cumulative_values = <<>>
            THEN Returned(v_count \o <<"No cumulative values found for validation">>)
       ELSE IF ~IsNumber(final_cumulative_value) \/ ~IsNumber(po_item_value) THEN Raised
       ELSE LET po == NumberOf(po_item_value)
                final == NumberOf(final_cumulative_value)
            IN Returned(
                 v_count
                 \o (IF Abs(po * invoice_count - final) > TOLERANCE * invoice_count
                     THEN <<"PO item value does not match expected value from invoice receipts">>
                     ELSE <<>>)
                 \o (IF po = 0
                     THEN <<"PO item value is zero, which may indicate invalid data">>
                     ELSE <<>>)
                 \o (IF final = 0 /\ po # 0
                     THEN <<"Cumulative value is zero but PO item value is non-zero">>
                     ELSE <<>>))

\* the 2-way value check without its two zero-value tests
check_2way_value_without_zero_checks(case) ==
    LET po_item_value == get_po_item_value(case)
        cumulative_values == get_cumulative_values(case.events)
        final_cumulative_value == cumulative_values[Len(cumulative_values)]
    IN IF cumulative_values = <<>>
       THEN Returned(<<"No cumulative values found for validation">>)
       ELSE IF ~IsNumber(final_cumulative_value) \/ ~IsNumber(po_item_value) THEN Raised
       ELSE Returned(
              IF Abs(NumberOf(po_item_value) - NumberOf(final_cumulative_value)) > TOLERANCE
              THEN <<"Invoice value does not match PO item value">>
              ELSE <<>>)

\* the 2-way value check taking the first cumulative value as the final one
check_2way_value_first_cumulative(case) ==
    LET po_item_value == get_po_item_value(case)
        cumulative_values == get_cumulative_values(case.events)
        final_cumulative_value == cumulative_values[1]
    IN IF cumulative_values = <<>>
       THEN Returned(<<"No cumulative values found for validation">>)
       ELSE IF ~IsNumber(final_cumulative_value) \/ ~IsNumber(po_item_value) THEN Raised
       ELSE LET po == NumberOf(po_item_value)
                final == NumberOf(final_cumulative_value)
            IN Returned(
                 (IF Abs(po - final) > TOLERANCE
                  THEN <<"Invoice value does not match PO item value">>
                  ELSE <<>>)
                 \o (IF po = 0
                     THEN <<"PO item value is zero, which may indicate invalid data">>
                     ELSE <<>>)
                 \o (IF final = 0 /\ po # 0
                     THEN <<"Invoice value is zero but PO item value is non-zero">>
                     ELSE <<>>))

\* check_2way_value_compliance
check_2way_value_compliance(case) ==
    LET po_item_value == get_po_item_value(case)
        cumulative_values == get_cumulative_values(case.events)
        final_cumulative_value == cumulative_values[Len(cumulative_values)]
    IN IF cumulative_values = <<>>
       THEN Returned(<<"No cumulative values found for validation">>)
       ELSE IF ~IsNumber(final_cumulative_value) \/ ~IsNumber(po_item_value) THEN Raised
       ELSE LET po == NumberOf(po_item_value)
                final == NumberOf(final_cumulative_value)
            IN Returned(
                 (IF Abs(po - final) > TOLERANCE
                  THEN <<"Invoice value does not match PO item value">>
                  ELSE <<>>)
                 \o (IF po = 0
                     THEN <<"PO item value is zero, which may indicate invalid data">>
                     ELSE <<>>)
                 \o (IF final = 0 /\ po # 0
                     THEN <<"Invoice value is zero but PO item value is non-zero">>
                     ELSE <<>>))


(***************************************************************************)
(* Compliance checking functions                                           *)
(***************************************************************************)
S_true == <<"t","r","u","e">>
S_false == <<"f","a","l","s","e">>

\* violations.append(reason) under a condition
When(cond, reason) == IF cond THEN <<reason>> ELSE <<>>

\* the flag test without lower()
flag_is_case_sensitive(attributes, key, expected) ==
    py_str(Get(attributes, key, Str(expected))) = expected

\* str(attributes.get(key, default)).lower() == default
flag_is(attributes, key, expected) ==
    lower(py_str(Get(attributes, key, Str(expected)))) = expected

\* the tail with an empty list for a compliant case
Verdict_empty_when_compliant(violations) ==
    IF violations # <<>>
    THEN [raised |-> FALSE, is_compliant |-> FALSE, reasons |-> violations]
    ELSE [raised |-> FALSE, is_compliant |-> TRUE, reasons |-> <<>>]

\* the tail with its test inverted
Verdict_inverted(violations) ==
    IF violations = <<>>
    THEN [raised |-> FALSE, is_compliant |-> FALSE, reasons |-> violations]
    ELSE [raised |-> FALSE, is_compliant |-> TRUE, reasons |-> <<"Compliant">>]

\* the common tail of the four checkers:
\*   if violations: return False, violations
\*   return True, ["Compliant"]
Verdict(violations) ==
    IF violations # <<>>
    THEN [raised |-> FALSE, is_compliant |-> FALSE, reasons |-> violations]
    ELSE [raised |-> FALSE, is_compliant |-> TRUE, reasons |-> <<"Compliant">>]

\* an exception leaving the checker
Propagated == [raised |-> TRUE, is_compliant |-> FALSE, reasons |-> <<>>]

\* the 3-way-after checker without its rule 6
check_3way_after_without_value_check(case) ==
    LET activities == get_activity_names(case.events)
        attributes == get_case_attributes(case)
        violations ==
            When(~has_activity_pattern(activities, ACTIVITY_PATTERNS.goods_receipt),
                 "Missing goods receipt activity")
            \o When(~has_activity_pattern(activities, ACTIVITY_PATTERNS.invoice_receipt),
                    "Missing invoice receipt activity")
            \o When(~check_sequence_constraint(activities, ACTIVITY_PATTERNS.goods_receipt,
                                               ACTIVITY_PATTERNS.invoice_receipt),
                    "Invoice received before goods receipt")
            \o When(~flag_is(attributes, "GR-Based Inv. Verif.", S_true),
                    "GR-based invoice verification flag is not set to true")
            \o When(~flag_is(attributes, "Goods Receipt", S_true),
                    "Goods receipt flag is not set to true")
    IN Verdict(violations)

\* the 3-way-after checker whose rule 3 also fires for an invoice receipt
\* without any goods receipt
check_3way_after_invoice_needs_earlier_goods(case) ==
    LET activities == get_activity_names(case.events)
        attributes == get_case_attributes(case)
        has_goods_receipt == has_activity_pattern(activities, ACTIVITY_PATTERNS.goods_receipt)
        has_invoice_receipt == has_activity_pattern(activities, ACTIVITY_PATTERNS.invoice_receipt)
        sequence_ok == /\ check_sequence_constraint(activities,
                              ACTIVITY_PATTERNS.goods_receipt, ACTIVITY_PATTERNS.invoice_receipt)
                       /\ (has_invoice_receipt => has_goods_receipt)
        value_violations == check_3way_value_compliance(case)
        violations ==
            When(~has_goods_receipt, "Missing goods receipt activity")
            \o When(~has_invoice_receipt, "Missing invoice receipt activity")
            \o When(~sequence_ok, "Invoice received before goods receipt")
            \o When(~flag_is(attributes, "GR-Based Inv. Verif.", S_true),
                    "GR-based invoice verification flag is not set to true")
            \o When(~flag_is(attributes, "Goods Receipt", S_true),
                    "Goods receipt flag is not set to true")
            \o value_violations.violations
    IN IF value_violations.raised THEN Propagated ELSE Verdict(violations)

check_3way_after_compliance(case) ==
    LET activities == get_activity_names(case.events)
        attributes == get_case_attributes(case)
        has_goods_receipt == has_activity_pattern(activities, ACTIVITY_PATTERNS.goods_receipt)
        has_invoice_receipt == has_activity_pattern(activities, ACTIVITY_PATTERNS.invoice_receipt)
        sequence_ok == check_sequence_constraint(activities,
                           ACTIVITY_PATTERNS.goods_receipt, ACTIVITY_PATTERNS.invoice_receipt)
        value_violations == check_3way_value_compliance(case)
        violations ==
            When(~has_goods_receipt, "Missing goods receipt activity")
            \o When(~has_invoice_receipt, "Missing invoice receipt activity")
            \o When(~sequence_ok, "Invoice received before goods receipt")
            \o When(~flag_is(attributes, "GR-Based Inv. Verif.", S_true),
                    "GR-based invoice verification flag is not set to true")
            \o When(~flag_is(attributes, "Goods Receipt", S_true),
                    "Goods receipt flag is not set to true")
            \o value_violations.violations
    IN IF value_violations.raised THEN Propagated ELSE Verdict(violations)

\* the 3-way-before checker returning at its first violated check
check_3way_before_first_violation_only(case) ==
    LET activities == get_activity_names(case.events)
        attributes == get_case_attributes(case)
        value_violations == check_3way_value_compliance(case)
    IN IF ~has_activity_pattern(activities, ACTIVITY_PATTERNS.goods_receipt)
       THEN Verdict(<<"Missing goods receipt activity">>)
       ELSE IF ~has_activity_pattern(activities, ACTIVITY_PATTERNS.invoice_receipt)
       THEN Verdict(<<"Missing invoice receipt activity">>)
       ELSE IF ~flag_is(attributes, "GR-based Inv. Verif.", S_false)
       THEN Verdict(<<"GR-based invoice verification flag is not set to false">>)
       ELSE IF ~flag_is(attributes, "Goods Receipt", S_true)
       THEN Verdict(<<"Goods receipt flag is not set to true">>)
       ELSE IF ~has_activity_pattern(activities, ACTIVITY_PATTERNS.payment_block_removed)
       THEN Verdict(<<"Payment block was not removed, which is not allowed">>)
       ELSE IF ~check_sequence_constraint(activities, ACTIVITY_PATTERNS.goods_receipt,
                                          ACTIVITY_PATTERNS.payment_block_removed)
       THEN Verdict(<<"Payment block was removed before goods receipt">>)
       ELSE IF value_violations.raised THEN Propagated
       ELSE Verdict(value_violations.violations)

\* the 3-way-before checker with its rules 5 and 7 enabled
check_3way_before_with_payment_block_set(case) ==
    LET activities == get_activity_names(case.events)
        attributes == get_case_attributes(case)
        value_violations == check_3way_value_compliance(case)
        violations ==
            When(~has_activity_pattern(activities, ACTIVITY_PATTERNS.goods_receipt),
                 "Missing goods receipt activity")
            \o When(~has_activity_pattern(activities, ACTIVITY_PATTERNS.invoice_receipt),
                    "Missing invoice receipt activity")
            \o When(~flag_is(attributes, "GR-based Inv. Verif.", S_false),
                    "GR-based invoice verification flag is not set to false")
            \o When(~flag_is(attributes, "Goods Receipt", S_true),
                    "Goods receipt flag is not set to true")
            \o When(~has_activity_pattern(activities, ACTIVITY_PATTERNS.set_payment_block),
                    "Missing payment block activity")
            \o When(~has_activity_pattern(activities, ACTIVITY_PATTERNS.payment_block_removed),
                    "Payment block was not removed, which is not allowed")
            \o When(~check_sequence_constraint(activities, ACTIVITY_PATTERNS.set_payment_block,
                                               ACTIVITY_PATTERNS.payment_block_removed),
                    "Payment block was removed before it was set")
            \o When(~check_sequence_constraint(activities, ACTIVITY_PATTERNS.goods_receipt,
                                               ACTIVITY_PATTERNS.payment_block_removed),
                    "Payment block was removed before goods receipt")
            \o value_violations.violations
    IN IF value_violations.raised THEN Propagated ELSE Verdict(violations)

\* the 3-way-before checker whose rule 8 also fires for a goods receipt
\* without any removal
check_3way_before_goods_needs_later_removal(case) ==
    LET activities == get_activity_names(case.events)
        attributes == get_case_attributes(case)
        has_goods_receipt == has_activity_pattern(activities, ACTIVITY_PATTERNS.goods_receipt)
        has_payment_removed ==
            has_activity_pattern(activities, ACTIVITY_PATTERNS.payment_block_removed)
        sequence_ok == /\ check_sequence_constraint(activities,
                              ACTIVITY_PATTERNS.goods_receipt,
                              ACTIVITY_PATTERNS.payment_block_removed)
                       /\ (has_goods_receipt => has_payment_removed)
        value_violations == check_3way_value_compliance(case)
        violations ==
            When(~has_goods_receipt, "Missing goods receipt activity")
            \o When(~has_activity_pattern(activities, ACTIVITY_PATTERNS.invoice_receipt),
                    "Missing invoice receipt activity")
            \o When(~flag_is(attributes, "GR-based Inv. Verif.", S_false),
                    "GR-based invoice verification flag is not set to false")
            \o When(~flag_is(attributes, "Goods Receipt", S_true),
                    "Goods receipt flag is not set to true")
            \o When(~has_payment_removed, "Payment block was not removed, which is not allowed")
            \o When(~sequence_ok, "Payment block was removed before goods receipt")
            \o value_violations.violations
    IN IF value_violations.raised THEN Propagated ELSE Verdict(violations)

\* the 3-way-before checker running its value check only for a case that
\* has both required activities
check_3way_before_value_check_when_complete(case) ==
    LET activities == get_activity_names(case.events)
        attributes == get_case_attributes(case)
        has_goods_receipt == has_activity_pattern(activities, ACTIVITY_PATTERNS.goods_receipt)
        has_invoice_receipt == has_activity_pattern(activities, ACTIVITY_PATTERNS.invoice_receipt)
        value_violations == IF has_goods_receipt /\ has_invoice_receipt
                            THEN check_3way_value_compliance(case)
                            ELSE Returned(<<>>)
        violations ==
            When(~has_goods_receipt, "Missing goods receipt activity")
            \o When(~has_invoice_receipt, "Missing invoice receipt activity")
            \o When(~flag_is(attributes, "GR-based Inv. Verif.", S_false),
                    "GR-based invoice verification flag is not set to false")
            \o When(~flag_is(attributes, "Goods Receipt", S_true),
                    "Goods receipt flag is not set to true")
            \o When(~has_activity_pattern(activities, ACTIVITY_PATTERNS.payment_block_removed),
                    "Payment block was not removed, which is not allowed")
            \o When(~check_sequence_constraint(activities, ACTIVITY_PATTERNS.goods_receipt,
                                               ACTIVITY_PATTERNS.payment_block_removed),
                    "Payment block was removed before goods receipt")
            \o value_violations.violations
    IN IF value_violations.raised THEN Propagated ELSE Verdict(violations)

check_3way_before_compliance(case) ==
    LET activities == get_activity_names(case.events)
        attributes == get_case_attributes(case)
        has_goods_receipt == has_activity_pattern(activities, ACTIVITY_PATTERNS.goods_receipt)
        has_invoice_receipt == has_activity_pattern(activities, ACTIVITY_PATTERNS.invoice_receipt)
        has_payment_removed ==
            has_activity_pattern(activities, ACTIVITY_PATTERNS.payment_block_removed)
        sequence_ok == check_sequence_constraint(activities,
                           ACTIVITY_PATTERNS.goods_receipt, ACTIVITY_PATTERNS.payment_block_removed)
        value_violations == check_3way_value_compliance(case)
        violations ==
            When(~has_goods_receipt, "Missing goods receipt activity")
            \o When(~has_invoice_receipt, "Missing invoice receipt activity")
            \o When(~flag_is(attributes, "GR-based Inv. Verif.", S_false),
                    "GR-based invoice verification flag is not set to false")
            \o When(~flag_is(attributes, "Goods Receipt", S_true),
                    "Goods receipt flag is not set to true")
            \o When(~has_payment_removed, "Payment block was not removed, which is not allowed")
            \o When(~sequence_ok, "Payment block was removed before goods receipt")
            \o value_violations.violations
    IN IF value_violations.raised THEN Propagated ELSE Verdict(violations)

\* the 2-way checker also asking for a goods receipt
check_2way_requiring_goods_receipt(case) ==
    LET activities == get_activity_names(case.events)
        attributes == get_case_attributes(case)
        value_violations == check_2way_value_compliance(case)
        violations ==
            When(~has_activity_pattern(activities, ACTIVITY_PATTERNS.goods_receipt),
                 "Missing goods receipt activity")
            \o When(~has_activity_pattern(activities, ACTIVITY_PATTERNS.invoice_receipt),
                    "Missing invoice receipt activity")
            \o When(~flag_is(attributes, "GR-based Inv. Verif.", S_false),
                    "GR-based invoice verification flag is not set to false")
            \o When(~flag_is(attributes, "Goods Receipt", S_false),
                    "Goods receipt flag is not set to false")
            \o value_violations.violations
    IN IF value_violations.raised THEN Propagated ELSE Verdict(violations)

check_2way_compliance(case) ==
    LET activities == get_activity_names(case.events)
        attributes == get_case_attributes(case)
        has_invoice_receipt == has_activity_pattern(activities, ACTIVITY_PATTERNS.invoice_receipt)
        value_violations == check_2way_value_compliance(case)
        violations ==
            When(~has_invoice_receipt, "Missing invoice receipt activity")
            \o When(~flag_is(attributes, "GR-based Inv. Verif.", S_false),
                    "GR-based invoice verification flag is not set to false")
            \o When(~flag_is(attributes, "Goods Receipt", S_false),
                    "Goods receipt flag is not set to false")
            \o value_violations.violations
    IN IF value_violations.raised THEN Propagated ELSE Verdict(violations)

\* the consignment checker with the 2-way value check appended
check_consignment_with_value_check(case) ==
    LET activities == get_activity_names(case.events)
        attributes == get_case_attributes(case)
        value_violations == check_2way_value_compliance(case)
        violations ==
            When(~has_activity_pattern(activities, ACTIVITY_PATTERNS.goods_receipt),
                 "Missing goods receipt activity")
            \o When(~flag_is(attributes, "GR-based Inv. Verif.", S_false),
                    "GR-based invoice verification flag is not set to false")
            \o When(~flag_is(attributes, "Goods Receipt", S_true),
                    "Goods receipt flag is not set to true")
            \o When(has_activity_pattern(activities, ACTIVITY_PATTERNS.invoice_receipt),
                    "Invoice receipt activity found at purchase order level, which is not allowed for consignment")
            \o value_violations.violations
    IN IF value_violations.raised THEN Propagated ELSE Verdict(violations)

check_consignment_compliance(case) ==
    LET activities == get_activity_names(case.events)
        attributes == get_case_attributes(case)
        has_goods_receipt == has_activity_pattern(activities, ACTIVITY_PATTERNS.goods_receipt)
        has_invoice_receipt == has_activity_pattern(activities, ACTIVITY_PATTERNS.invoice_receipt)
        violations ==
            When(~has_goods_receipt, "Missing goods receipt activity")
            \o When(~flag_is(attributes, "GR-based Inv. Verif.", S_false),
                    "GR-based invoice verification flag is not set to false")
            \o When(~flag_is(attributes, "Goods Receipt", S_true),
                    "Goods receipt flag is not set to true")
            \o When(has_invoice_receipt,
                    "Invoice receipt activity found at purchase order level, which is not allowed for consignment")
    IN Verdict(violations)

\* the dict compliance_checkers of filter_compliance_by_category
compliance_checkers == {K_3_way_after, K_3_way_before, K_2_way, K_consignment}

\* compliance_checkers.get(category_name), applied to a case
checker_of(category, case) ==
    IF category = K_3_way_after THEN check_3way_after_compliance(case)
    ELSE IF category = K_3_way_before THEN check_3way_before_compliance(case)
    ELSE IF category = K_2_way THEN check_2way_compliance(case)
    ELSE check_consignment_compliance(case)

\* the checkers appending to one violations list that outlives the call: a
\* case inherits the violations of the case before it
checker_shared_violations(category, case) ==
    LET own == checker_of(category, case)
        inherited == IF i > 0 /\ ~is_compliant THEN reasons ELSE <<>>
    IN IF own.raised THEN own
       ELSE Verdict(inherited \o (IF own.is_compliant THEN <<>> ELSE own.reasons))

\* is_compliant, reasons = checker(case)  (line 540)
checker(category, case) == checker_of(category, case)

(***************************************************************************)
(* The cases and logs the model draws its inputs from                      *)
(***************************************************************************)
NAME == "concept:name"
CUM == "Cumulative net worth (EUR)"
S_abc == <<"a","b","c">>

E_GoodsReceipt == NAME :> Str(S_RecordGoodsReceipt)
E_InvoiceReceipt == NAME :> Str(S_RecordInvoiceReceipt)
E_InvoiceReceipt100 == (NAME :> Str(S_RecordInvoiceReceipt)) @@ (CUM :> Num(10000))
E_RemovePaymentBlock == NAME :> Str(S_RemovePaymentBlock)
E_Nameless50 == CUM :> Num(5000)

\* events: the three activities the rules look for, an invoice receipt that
\* carries a cumulative value of 100.00, and an event without concept:name
\* that carries 50.00
Events == {E_GoodsReceipt, E_InvoiceReceipt, E_InvoiceReceipt100,
           E_RemovePaymentBlock, E_Nameless50}

RECURSIVE SeqsUpTo(_, _)
SeqsUpTo(S, n) ==
    IF n = 0 THEN {<<>>}
    ELSE LET shorter == SeqsUpTo(S, n - 1)
         IN shorter \cup {Append(s, x) : s \in {t \in shorter : Len(t) = n - 1}, x \in S}

FlagValues == {Bool(TRUE), Str(S_false)}
POValues == {Num(0), Num(10000), Str(S_abc)}
AttrKeys == {"GR-Based Inv. Verif.", "GR-based Inv. Verif.", "Goods Receipt", "PO item value"}

\* attribute dicts; a log spells the verification flag one way, so a case
\* does not carry both spellings
AttrMaps ==
    {d \in UNION {[K -> FlagValues \cup POValues] : K \in SUBSET AttrKeys} :
        /\ ~({"GR-Based Inv. Verif.", "GR-based Inv. Verif."} \subseteq DOMAIN d)
        /\ \A k \in DOMAIN d :
              IF k = "PO item value" THEN d[k] \in POValues ELSE d[k] \in FlagValues}

Cases == {[attributes |-> a, events |-> e] : a \in AttrMaps, e \in SeqsUpTo(Events, MaxEvents)}

\* the cases of the logs handed to the filter
LogCases ==
    {[attributes |-> a, events |-> e] :
        a \in {<<>>, "PO item value" :> Num(10000), "PO item value" :> Str(S_abc)},
        e \in {<<E_GoodsReceipt, E_InvoiceReceipt100>>,
               <<E_InvoiceReceipt100, E_GoodsReceipt>>,
               <<E_GoodsReceipt, E_RemovePaymentBlock, E_InvoiceReceipt100>>,
               <<E_GoodsReceipt>>,
               <<E_InvoiceReceipt100>>}}

Logs == SeqsUpTo(LogCases, MaxLog)

K_4_way == <<"4","_","w","a","y">>


(***************************************************************************)
(* Spec: one call of a category's checker on one case                      *)
(***************************************************************************)
NoStats == [total_cases |-> 0, compliant_cases |-> 0, non_compliant_cases |-> 0,
            compliance_reasons |-> <<>>, non_compliance_reasons |-> <<>>]
NoResult == [returned |-> FALSE, compliant_log |-> <<>>, non_compliant_log |-> <<>>,
             compliance_stats |-> NoStats]

FilterIdle ==
    /\ i = 0
    /\ is_compliant = FALSE
    /\ reasons = <<>>
    /\ compliant_cases = <<>>
    /\ non_compliant_cases = <<>>
    /\ compliance_stats = NoStats
    /\ result = NoResult
    /\ verdicts = <<>>

DriverIdle ==
    /\ xes_files = <<>>
    /\ fi = 0
    /\ dpc = "idle"
    /\ overall_stats = <<>>
    /\ saved = {}
    /\ journal = <<>>
    /\ summary = <<>>

HelperIdle ==
    /\ arg_activities = <<>>
    /\ arg_first = <<>>
    /\ arg_second = <<>>
    /\ hpc = "idle"
    /\ ret = FALSE

HandoverIdle ==
    /\ case_idx = 0
    /\ pair_i = 0
    /\ handover_counts = <<>>
    /\ total_handovers = 0
    /\ df = <<>>
    /\ apc = "idle"

PreprocIdle ==
    /\ filtered_log = <<>>
    /\ grouped_case_ids = {}
    /\ incomplete_case_ids = {}
    /\ other_count = 0
    /\ other_cases_batch = <<>>
    /\ group_other = <<>>
    /\ case_pos = 0
    /\ ppc = "idle"

SplitIdle ==
    /\ input_log = <<>>
    /\ sublogs = <<>>
    /\ split_other_count = 0
    /\ trace_idx = 0
    /\ exported = {}
    /\ split_ret = <<>>
    /\ spc = "idle"

FrequencyIdle ==
    /\ trace_pos = 0
    /\ number_of_events = <<>>
    /\ one_activity_in_trace = <<>>
    /\ between_handovers_per_case = <<>>
    /\ inside_handovers_per_case = <<>>
    /\ durations_per_case = <<>>
    /\ per_category = <<>>
    /\ fqpc = "idle"

ScriptsIdle == HandoverIdle /\ PreprocIdle /\ SplitIdle /\ FrequencyIdle

Init ==
    /\ ACTIVITY_PATTERNS = ACTIVITY_PATTERNS_INIT
    /\ ScriptsIdle
    /\ HelperIdle
    /\ log \in {<<c>> : c \in Cases}
    /\ category_name \in compliance_checkers
    /\ pc = "call"
    /\ FilterIdle
    /\ DriverIdle

\* the call with a checker that works on the case's own attribute dict and
\* stores the default of an absent "Goods Receipt" flag in it
Evaluate_storing_default(verdict) ==
    /\ IF verdict.raised
       THEN /\ pc' = "raised"
            /\ UNCHANGED <<is_compliant, reasons>>
       ELSE /\ pc' = "checked"
            /\ is_compliant' = verdict.is_compliant
            /\ reasons' = verdict.reasons
    /\ log' = [log EXCEPT ![1].attributes =
                 IF "Goods Receipt" \in DOMAIN @ THEN @
                 ELSE @ @@ ("Goods Receipt" :> Str(S_true))]
    /\ UNCHANGED <<scriptVars, helperVars, ACTIVITY_PATTERNS, category_name, i, compliant_cases,
                   non_compliant_cases, compliance_stats, result, verdicts,
                   driverVars>>

\* is_compliant, reasons = checker(case): the verdict is bound unless the
\* checker raised; the case and the configuration are only read
Evaluate(verdict) ==
    /\ IF verdict.raised
       THEN /\ pc' = "raised"
            /\ UNCHANGED <<is_compliant, reasons>>
       ELSE /\ pc' = "checked"
            /\ is_compliant' = verdict.is_compliant
            /\ reasons' = verdict.reasons
    /\ UNCHANGED <<scriptVars, helperVars, ACTIVITY_PATTERNS, log, category_name, i, compliant_cases,
                   non_compliant_cases, compliance_stats, result, verdicts,
                   driverVars>>

Check3wayAfter ==
    /\ pc = "call"
    /\ category_name = K_3_way_after
    /\ Evaluate(check_3way_after_compliance(log[1]))

Check3wayBefore ==
    /\ pc = "call"
    /\ category_name = K_3_way_before
    /\ Evaluate(check_3way_before_compliance(log[1]))

Check2way ==
    /\ pc = "call"
    /\ category_name = K_2_way
    /\ Evaluate(check_2way_compliance(log[1]))

CheckConsignment ==
    /\ pc = "call"
    /\ category_name = K_consignment
    /\ Evaluate(check_consignment_compliance(log[1]))

Next == Check3wayAfter \/ Check3wayBefore \/ Check2way \/ CheckConsignment

Spec == Init /\ [][Next]_vars

(***************************************************************************)
(* RuleSpec: one checker call on a case drawn for the category rules: all  *)
(* the activities the rules name, the flags under both spellings of the    *)
(* verification key, and the end-to-end scenario case                      *)
(***************************************************************************)
E_SetPaymentBlock == NAME :> Str(S_SetPaymentBlock)
E_GoodsReceipt100 == (NAME :> Str(S_RecordGoodsReceipt)) @@ (CUM :> Num(10000))
E_CreatePurchaseOrderItem == NAME :> Str(S_CreatePurchaseOrderItem)
E_ClearInvoice == NAME :> Str(S_ClearInvoice)

RuleEvents == {E_GoodsReceipt, E_GoodsReceipt100, E_InvoiceReceipt100,
               E_RemovePaymentBlock, E_SetPaymentBlock}

\* the verification flag: absent, under either spelling of its key, or
\* under both
VerifFlags ==
    {<<>>,
     "GR-Based Inv. Verif." :> Bool(TRUE), "GR-Based Inv. Verif." :> Str(S_false),
     "GR-based Inv. Verif." :> Bool(TRUE), "GR-based Inv. Verif." :> Str(S_false),
     ("GR-Based Inv. Verif." :> Bool(TRUE)) @@ ("GR-based Inv. Verif." :> Str(S_false))}

GoodsReceiptFlags == {<<>>, "Goods Receipt" :> Bool(TRUE), "Goods Receipt" :> Str(S_false)}

POItemValues == {<<>>, "PO item value" :> Num(0)}

RuleAttrMaps == {v @@ g @@ p : v \in VerifFlags, g \in GoodsReceiptFlags, p \in POItemValues}

\* Create Purchase Order Item, Record Goods Receipt, Record Invoice Receipt,
\* Clear Invoice; both flags "true"; cumulative values [100.0]; PO item value 100.0
C_Scenario1 ==
    [attributes |-> ("GR-Based Inv. Verif." :> Str(S_true)) @@ ("Goods Receipt" :> Str(S_true))
                    @@ ("PO item value" :> Num(10000)),
     events |-> <<E_CreatePurchaseOrderItem, E_GoodsReceipt, E_InvoiceReceipt100, E_ClearInvoice>>]

\* a payment block that is removed after the goods receipt and set only
\* after its removal, with the invoice receipt last
C_RemovedBeforeSet ==
    [attributes |-> <<>>,
     events |-> <<E_GoodsReceipt, E_RemovePaymentBlock, E_SetPaymentBlock, E_InvoiceReceipt100>>]

RuleCases ==
    {[attributes |-> a, events |-> e] : a \in RuleAttrMaps, e \in SeqsUpTo(RuleEvents, MaxEvents)}
    \cup {C_Scenario1, C_RemovedBeforeSet}

RuleInit ==
    /\ ACTIVITY_PATTERNS = ACTIVITY_PATTERNS_INIT
    /\ ScriptsIdle
    /\ HelperIdle
    /\ log \in {<<c>> : c \in RuleCases}
    /\ category_name \in compliance_checkers
    /\ pc = "call"
    /\ FilterIdle
    /\ DriverIdle

RuleSpec == RuleInit /\ [][Next]_vars

(***************************************************************************)
(* FilterSpec: filter_compliance_by_category(log, category_name)           *)
(***************************************************************************)
\* Counter()[key] += 1
Inc(counter, key) ==
    IF key \in DOMAIN counter THEN [counter EXCEPT ![key] = @ + 1]
    ELSE counter @@ (key :> 1)

RECURSIVE CountAll(_, _)
\* for reason in reasons: counter[reason] += 1
CountAll(counter, rs) ==
    IF rs = <<>> THEN counter ELSE CountAll(Inc(counter, Head(rs)), Tail(rs))

\* lines 513-536: the empty lists and statistics, and the choice of the
\* checker; without a checker the function returns the log itself as the
\* compliant log, an empty EventLog and the untouched statistics
SelectChecker ==
    /\ pc = "entry"
    /\ compliant_cases' = <<>>
    /\ non_compliant_cases' = <<>>
    /\ i' = 0
    /\ verdicts' = <<>>
    /\ LET stats == [total_cases |-> Len(log), compliant_cases |-> 0,
                     non_compliant_cases |-> 0, compliance_reasons |-> <<>>,
                     non_compliance_reasons |-> <<>>]
       IN /\ compliance_stats' = stats
          /\ IF category_name \notin compliance_checkers
             THEN /\ result' = [returned |-> TRUE,
                                compliant_log |-> [k \in 1..Len(log) |-> k],
                                non_compliant_log |-> <<>>,
                                compliance_stats |-> stats]
                  /\ pc' = "returned"
             ELSE /\ result' = NoResult
                  /\ pc' = "loop"
    /\ UNCHANGED <<scriptVars, helperVars, ACTIVITY_PATTERNS, log, category_name, is_compliant, reasons, driverVars>>

\* lines 539-551: one iteration of  for case in log
ProcessCase ==
    /\ pc = "loop"
    /\ i < Len(log)
    /\ LET verdict == checker(category_name, log[i + 1])
       IN IF verdict.raised
          THEN /\ pc' = "raised"
               /\ UNCHANGED <<i, is_compliant, reasons, compliant_cases,
                              non_compliant_cases, compliance_stats, verdicts>>
          ELSE /\ pc' = "loop"
               /\ i' = i + 1
               /\ is_compliant' = verdict.is_compliant
               /\ reasons' = verdict.reasons
               /\ verdicts' = Append(verdicts, [is_compliant |-> verdict.is_compliant,
                                                reasons |-> verdict.reasons])
               /\ IF verdict.is_compliant
                  THEN /\ compliant_cases' = Append(compliant_cases, i + 1)
                       /\ compliance_stats' =
                            [compliance_stats EXCEPT
                               !.compliant_cases = @ + 1,
                               !.compliance_reasons = CountAll(@, verdict.reasons)]
                       /\ UNCHANGED non_compliant_cases
                  ELSE /\ non_compliant_cases' = Append(non_compliant_cases, i + 1)
                       /\ compliance_stats' =
                            [compliance_stats EXCEPT
                               !.non_compliant_cases = @ + 1,
                               !.non_compliance_reasons = CountAll(@, verdict.reasons)]
                       /\ UNCHANGED compliant_cases
    /\ UNCHANGED <<scriptVars, helperVars, ACTIVITY_PATTERNS, log, category_name, result, driverVars>>

\* the return with the two lists taken for each other
CreateFilteredLogs_swapped ==
    /\ pc = "loop"
    /\ i = Len(log)
    /\ result' = [returned |-> TRUE,
                  compliant_log |-> non_compliant_cases,
                  non_compliant_log |-> compliant_cases,
                  compliance_stats |-> compliance_stats]
    /\ pc' = "returned"
    /\ UNCHANGED <<scriptVars, helperVars, ACTIVITY_PATTERNS, log, category_name, i, is_compliant, reasons,
                   compliant_cases, non_compliant_cases, compliance_stats, verdicts,
                   driverVars>>

\* lines 553-562: the two filtered logs and the return
CreateFilteredLogs ==
    /\ pc = "loop"
    /\ i = Len(log)
    /\ result' = [returned |-> TRUE,
                  compliant_log |-> compliant_cases,
                  non_compliant_log |-> non_compliant_cases,
                  compliance_stats |-> compliance_stats]
    /\ pc' = "returned"
    /\ UNCHANGED <<scriptVars, helperVars, ACTIVITY_PATTERNS, log, category_name, i, is_compliant, reasons,
                   compliant_cases, non_compliant_cases, compliance_stats, verdicts,
                   driverVars>>

FilterInit ==
    /\ ACTIVITY_PATTERNS = ACTIVITY_PATTERNS_INIT
    /\ ScriptsIdle
    /\ HelperIdle
    /\ log \in Logs
    /\ category_name \in compliance_checkers \cup {K_4_way}
    /\ pc = "entry"
    /\ FilterIdle
    /\ DriverIdle

FilterNext == SelectChecker \/ ProcessCase \/ CreateFilteredLogs

FilterSpec == FilterInit /\ [][FilterNext]_vars

(***************************************************************************)
(* BatchSpec: process_all_categories()                                     *)
(***************************************************************************)
F_3_way_after == <<"g","r","o","u","p","_","3","_","w","a","y","_","a","f","t","e","r",".","x","e","s">>
F_consignment == <<"C","o","n","s","i","g","n","m","e","n","t","_","2","0","1","9",".","x","e","s">>
F_other == <<"g","r","o","u","p","_","o","t","h","e","r",".","x","e","s">>
F_notes == <<"n","o","t","e","s",".","t","x","t">>

\* input files: one per recognized category of the first and the last key of
\* ITEM_CATEGORIES, one without a recognizable category, one that is no .xes
FileNames == {F_3_way_after, F_consignment, F_other, F_notes}

\* os.listdir(INPUT_DIR): names of a directory are distinct
Listings ==
    {l \in SeqsUpTo(FileNames, MaxFiles) : \A a, b \in 1..Len(l) : a # b => l[a] # l[b]}

\* the logs load_log may return: an empty log, a log with a goods-and-invoice
\* case and a goods-only case, a log with the goods-only case alone, and a
\* log whose case carries a non-numeric PO item value
C_GoodsAndInvoice == [attributes |-> <<>>, events |-> <<E_GoodsReceipt, E_InvoiceReceipt100>>]
C_GoodsOnly == [attributes |-> <<>>, events |-> <<E_GoodsReceipt>>]
C_MalformedValue == [attributes |-> "PO item value" :> Str(S_abc),
                     events |-> <<E_GoodsReceipt, E_InvoiceReceipt100>>]

BatchLogs == {<<>>, <<C_GoodsAndInvoice, C_GoodsOnly>>, <<C_GoodsOnly>>, <<C_MalformedValue>>}

\* [f for f in os.listdir(INPUT_DIR) if f.endswith('.xes')]
RECURSIVE only_xes(_)
only_xes(l) ==
    IF l = <<>> THEN <<>>
    ELSE (IF endswith(Head(l), <<".","x","e","s">>) THEN <<Head(l)>> ELSE <<>>)
         \o only_xes(Tail(l))

\* lines 584-588: the first key of ITEM_CATEGORIES found in the lower-cased
\* file name; <<>> stands for None
RECURSIVE category_from(_, _)
category_from(xes_file, k) ==
    IF k > Len(ITEM_CATEGORIES) THEN <<>>
    ELSE LET cat == ITEM_CATEGORIES[k]
         IN IF \/ contains(lower(xes_file), cat)
               \/ startswith(lower(xes_file), <<"g","r","o","u","p","_">> \o cat)
            THEN cat
            ELSE category_from(xes_file, k + 1)

category_of(xes_file) == category_from(xes_file, 1)

Entry(k, step, n_compliant, n_non_compliant) ==
    [file |-> k, step |-> step, compliant |-> n_compliant, non_compliant |-> n_non_compliant]

\* continue: on to the next file of the loop
Continue ==
    /\ fi' = fi + 1
    /\ dpc' = "for"

\* lines 572-580: the directory listing
ListFiles ==
    /\ dpc = "start"
    /\ \E listing \in Listings :
         /\ xes_files' = only_xes(listing)
         /\ IF only_xes(listing) = <<>>
            THEN dpc' = "returned"
            ELSE dpc' = "for"
    /\ fi' = 1
    /\ overall_stats' = <<>>
    /\ UNCHANGED <<scriptVars, helperVars, ACTIVITY_PATTERNS, filterVars, saved, journal, summary>>

\* lines 583-592: the category of the file, or a warning and the next file
DetermineCategory ==
    /\ dpc = "for"
    /\ fi <= Len(xes_files)
    /\ category_name' = category_of(xes_files[fi])
    /\ IF category_of(xes_files[fi]) = <<>>
       THEN /\ journal' = Append(journal, Entry(fi, "no_category", 0, 0))
            /\ Continue
       ELSE /\ journal' = journal
            /\ dpc' = "load"
            /\ fi' = fi
    /\ UNCHANGED <<scriptVars, helperVars, ACTIVITY_PATTERNS, log, pc, i, is_compliant, reasons, compliant_cases,
                   non_compliant_cases, compliance_stats, result, verdicts,
                   xes_files, overall_stats, saved, summary>>

\* the load whose except branch leaves the function instead of continuing
LoadLog_return_on_failure ==
    /\ dpc = "load"
    /\ \/ \E l \in BatchLogs :
            /\ log' = l
            /\ journal' = Append(journal, Entry(fi, "loaded", 0, 0))
            /\ dpc' = "filter"
            /\ pc' = "entry"
            /\ fi' = fi
       \/ /\ journal' = Append(journal, Entry(fi, "load_failed", 0, 0))
          /\ dpc' = "returned"
          /\ UNCHANGED <<log, pc, fi>>
    /\ UNCHANGED <<scriptVars, helperVars, ACTIVITY_PATTERNS, category_name, i, is_compliant, reasons,
                   compliant_cases, non_compliant_cases, compliance_stats, result, verdicts,
                   xes_files, overall_stats, saved, summary>>

\* lines 594-600 and the call of line 604: load_log returns a log or raises
LoadLog ==
    /\ dpc = "load"
    /\ \/ \E l \in BatchLogs :
            /\ log' = l
            /\ journal' = Append(journal, Entry(fi, "loaded", 0, 0))
            /\ dpc' = "filter"
            /\ pc' = "entry"
            /\ fi' = fi
       \/ /\ journal' = Append(journal, Entry(fi, "load_failed", 0, 0))
          /\ Continue
          /\ UNCHANGED <<log, pc>>
    /\ UNCHANGED <<scriptVars, helperVars, ACTIVITY_PATTERNS, category_name, i, is_compliant, reasons,
                   compliant_cases, non_compliant_cases, compliance_stats, result, verdicts,
                   xes_files, overall_stats, saved, summary>>

\* lines 604-605: the filter returned; its statistics are kept under the category
StoreStats ==
    /\ dpc = "filter"
    /\ pc = "returned"
    /\ overall_stats' =
         IF category_name \in DOMAIN overall_stats
         THEN [overall_stats EXCEPT ![category_name] = result.compliance_stats]
         ELSE overall_stats @@ (category_name :> result.compliance_stats)
    /\ journal' = Append(journal, Entry(fi, "evaluated", Len(result.compliant_log),
                                        Len(result.non_compliant_log)))
    /\ dpc' = "save_compliant"
    /\ pc' = "idle"
    /\ UNCHANGED <<scriptVars, helperVars, ACTIVITY_PATTERNS, log, category_name, i, is_compliant, reasons,
                   compliant_cases, non_compliant_cases, compliance_stats, result, verdicts,
                   xes_files, fi, saved, summary>>

\* lines 619-622: an exception left the filter
FilterFailed ==
    /\ dpc = "filter"
    /\ pc = "raised"
    /\ journal' = Append(journal, Entry(fi, "evaluation_failed", 0, 0))
    /\ Continue
    /\ pc' = "idle"
    /\ UNCHANGED <<scriptVars, helperVars, ACTIVITY_PATTERNS, log, category_name, i, is_compliant, reasons,
                   compliant_cases, non_compliant_cases, compliance_stats, result, verdicts,
                   xes_files, overall_stats, saved, summary>>

\* lines 607-611 (and 619-622 when save_log raises)
SaveCompliant ==
    /\ dpc = "save_compliant"
    /\ IF Len(result.compliant_log) > 0
       THEN \/ /\ saved' = saved \cup {[dir |-> "compliant", file |-> xes_files[fi],
                                       cases |-> Len(result.compliant_log)]}
               /\ journal' = Append(journal, Entry(fi, "saved_compliant",
                                                   Len(result.compliant_log), 0))
               /\ dpc' = "save_non_compliant"
               /\ fi' = fi
            \/ /\ journal' = Append(journal, Entry(fi, "save_failed", 0, 0))
               /\ Continue
               /\ saved' = saved
       ELSE /\ dpc' = "save_non_compliant"
            /\ UNCHANGED <<fi, saved, journal>>
    /\ UNCHANGED <<scriptVars, helperVars, ACTIVITY_PATTERNS, filterVars, xes_files, overall_stats, summary>>

\* lines 613-617 (and 619-622 when save_log raises)
SaveNonCompliant ==
    /\ dpc = "save_non_compliant"
    /\ IF Len(result.non_compliant_log) > 0
       THEN \/ /\ saved' = saved \cup {[dir |-> "non_compliant", file |-> xes_files[fi],
                                       cases |-> Len(result.non_compliant_log)]}
               /\ journal' = Append(journal, Entry(fi, "saved_non_compliant", 0,
                                                   Len(result.non_compliant_log)))
               /\ Continue
            \/ /\ journal' = Append(journal, Entry(fi, "save_failed", 0, 0))
               /\ Continue
               /\ saved' = saved
       ELSE /\ Continue
            /\ UNCHANGED <<saved, journal>>
    /\ UNCHANGED <<scriptVars, helperVars, ACTIVITY_PATTERNS, filterVars, xes_files, overall_stats, summary>>

\* lines 635-637 and 651-656: what the summary prints for one category and
\* writes to its JSON file
Report(stats) ==
    [total_cases |-> stats.total_cases,
     compliant |-> stats.compliant_cases,
     non_compliant |-> stats.non_compliant_cases,
     reasons |-> stats.non_compliance_reasons]

\* lines 624-663: the loop is over; the summary reports every category of
\* overall_stats
BeginSummary ==
    /\ dpc = "for"
    /\ fi > Len(xes_files)
    /\ summary' = [c \in DOMAIN overall_stats |-> Report(overall_stats[c])]
    /\ dpc' = "summary"
    /\ UNCHANGED <<scriptVars, helperVars, ACTIVITY_PATTERNS, filterVars, xes_files, fi, overall_stats, saved, journal>>

BatchInit ==
    /\ ACTIVITY_PATTERNS = ACTIVITY_PATTERNS_INIT
    /\ ScriptsIdle
    /\ HelperIdle
    /\ log = <<>>
    /\ category_name = <<>>
    /\ pc = "idle"
    /\ FilterIdle
    /\ xes_files = <<>>
    /\ fi = 0
    /\ dpc = "start"
    /\ overall_stats = <<>>
    /\ saved = {}
    /\ journal = <<>>
    /\ summary = <<>>

BatchNext ==
    \/ ListFiles \/ DetermineCategory \/ LoadLog
    \/ SelectChecker \/ ProcessCase \/ CreateFilteredLogs
    \/ StoreStats \/ FilterFailed \/ SaveCompliant \/ SaveNonCompliant
    \/ BeginSummary

\* the driver is one sequential run: it keeps taking its next step
BatchSpec == BatchInit /\ [][BatchNext]_vars /\ WF_vars(BatchNext)

(***************************************************************************)
(* HelperSpec: one call of a pattern helper on a list of activity names    *)
(***************************************************************************)
N_GoodsReceiptForItemX == S_RecordGoodsReceipt \o <<" ","f","o","r"," ","I","t","e","m"," ","X">>
N_RECORD_GOODS_RECEIPT == <<"R","E","C","O","R","D"," ","G","O","O","D","S"," ","R","E","C","E","I","P","T">>
N_RecordGoods == <<"R","e","c","o","r","d"," ","G","o","o","d","s">>
P_record_invoice_receipt == lower(S_RecordInvoiceReceipt)

\* activity names: a goods receipt with a suffix, one in upper case, an
\* invoice receipt, and a name that is a proper prefix of a pattern
HelperNames == {N_GoodsReceiptForItemX, N_RECORD_GOODS_RECEIPT, S_RecordInvoiceReceipt,
                N_RecordGoods}

\* pattern lists: none, the configured goods-receipt list, a lower-case
\* pattern, a list whose second pattern is the one that matches, and the
\* empty pattern
HelperPatterns == {<<>>, <<S_RecordGoodsReceipt>>, <<P_record_invoice_receipt>>,
                   <<S_ClearInvoice, S_RecordInvoiceReceipt>>, << <<>> >>}

HelperInit ==
    /\ ACTIVITY_PATTERNS = ACTIVITY_PATTERNS_INIT
    /\ ScriptsIdle
    /\ log = <<>>
    /\ category_name = <<>>
    /\ pc = "idle"
    /\ FilterIdle
    /\ DriverIdle
    /\ arg_activities \in SeqsUpTo(HelperNames, MaxEvents)
    /\ arg_first \in HelperPatterns
    /\ arg_second \in HelperPatterns
    /\ hpc = "call"
    /\ ret = FALSE

\* has_activity_pattern(activities, patterns)
CallHasActivityPattern ==
    /\ hpc = "call"
    /\ ret' = has_activity_pattern(arg_activities, arg_first)
    /\ hpc' = "has_activity_pattern"
    /\ UNCHANGED <<scriptVars, ACTIVITY_PATTERNS, filterVars, driverVars,
                   arg_activities, arg_first, arg_second>>

\* check_sequence_constraint(activities, first_patterns, second_patterns)
CallCheckSequenceConstraint ==
    /\ hpc = "call"
    /\ ret' = check_sequence_constraint(arg_activities, arg_first, arg_second)
    /\ hpc' = "check_sequence_constraint"
    /\ UNCHANGED <<scriptVars, ACTIVITY_PATTERNS, filterVars, driverVars,
                   arg_activities, arg_first, arg_second>>

HelperNext == CallHasActivityPattern \/ CallCheckSequenceConstraint

HelperSpec == HelperInit /\ [][HelperNext]_vars

(***************************************************************************)
(* ValueSpec: one call of a value helper on a case                         *)
(***************************************************************************)
E_InvoiceReceipt0 == (NAME :> Str(S_RecordInvoiceReceipt)) @@ (CUM :> Num(0))

\* events: a goods receipt without a value, invoice receipts carrying 100.00
\* and 0.00, and an event without concept:name carrying 50.00
ValueEvents == {E_GoodsReceipt, E_InvoiceReceipt100, E_InvoiceReceipt0, E_Nameless50}

\* the attribute "PO item value": absent, 0, 50.00, 51.00, 100.00, or a str
ValuePOItemValues ==
    {<<>>} \cup {"PO item value" :> v :
                    v \in {Num(0), Num(5000), Num(5100), Num(10000), Str(S_abc)}}

\* two goods receipts and two invoice receipts with a final cumulative
\* value of 100.00, for each PO item value
ValueScenarioCases ==
    {[attributes |-> a,
      events |-> <<E_GoodsReceipt, E_GoodsReceipt, E_InvoiceReceipt, E_InvoiceReceipt100>>] :
        a \in ValuePOItemValues}

ValueCases ==
    {[attributes |-> a, events |-> e] :
        a \in ValuePOItemValues, e \in SeqsUpTo(ValueEvents, MaxEvents)}
    \cup ValueScenarioCases

ValueInit ==
    /\ ACTIVITY_PATTERNS = ACTIVITY_PATTERNS_INIT
    /\ ScriptsIdle
    /\ log \in {<<c>> : c \in ValueCases}
    /\ category_name = <<>>
    /\ pc = "idle"
    /\ FilterIdle
    /\ DriverIdle
    /\ arg_activities = <<>>
    /\ arg_first = <<>>
    /\ arg_second = <<>>
    /\ hpc = "call"
    /\ ret = FALSE

\* one helper call on the case; the case and the configuration are only read
CallOnCase(name, value) ==
    /\ hpc = "call"
    /\ ret' = value
    /\ hpc' = name
    /\ UNCHANGED <<scriptVars, ACTIVITY_PATTERNS, filterVars, driverVars,
                   arg_activities, arg_first, arg_second>>

CallGetPoItemValue == CallOnCase("get_po_item_value", get_po_item_value(log[1]))

CallCheck3wayValueCompliance ==
    CallOnCase("check_3way_value_compliance", check_3way_value_compliance(log[1]))

CallCheck2wayValueCompliance ==
    CallOnCase("check_2way_value_compliance", check_2way_value_compliance(log[1]))

ValueNext ==
    CallGetPoItemValue \/ CallCheck3wayValueCompliance \/ CallCheck2wayValueCompliance

ValueSpec == ValueInit /\ [][ValueNext]_vars

(***************************************************************************)
(* HandoverSpec: handover_analysis.analyze_handover_pairs(log,             *)
(* category_name).  Roles are compared for equality only and are kept as   *)
(* plain strings.                                                          *)
(***************************************************************************)
ROLE == "userRole"
RESOURCE == "org:resource"

E_RoleA == ROLE :> "A"
E_RoleB == ROLE :> "B"
E_RoleUnclear == ROLE :> "unclear"
E_NoRole == RESOURCE :> "NONE"

\* events: two roles, the role "unclear", and an event without userRole
HandoverEvents == {E_RoleA, E_RoleB, E_RoleUnclear, E_NoRole}

HandoverCases ==
    {[attributes |-> <<>>, events |-> e] : e \in SeqsUpTo(HandoverEvents, MaxEvents)}

\* the cases of the logs that hold several cases
HandoverLogCases ==
    {[attributes |-> <<>>, events |-> e] :
        e \in {<<E_RoleA, E_RoleA>>, <<E_RoleA, E_RoleB>>,
               <<E_RoleUnclear, E_RoleUnclear>>}}

\* the test of line 74, as written
handover_condition(current_role, next_role) ==
    \/ current_role # next_role
    \/ current_role = "unclear"
    \/ next_role # "unclear"

\* Counter: counter[key] += 1, a missing key counting as 0
Increment(counter, key) ==
    IF key \in DOMAIN counter
    THEN [counter EXCEPT ![key] = @ + 1]
    ELSE counter @@ (key :> 1)

\* one row per counted pair; the percentage count / total * 100 is kept as
\* the fraction <<count * 100, total>>
FrameRows(counts, total, category) ==
    {[from_role |-> pair[1], to_role |-> pair[2], count |-> counts[pair],
      percentage |-> <<counts[pair] * 100, total>>, category |-> category] :
        pair \in DOMAIN counts}

\* sort_values('count', ascending=False): the orders of the rows by
\* descending count; the sort is not stable, rows of equal count come in
\* any order
RECURSIVE SortedByCount(_)
SortedByCount(rows) ==
    IF rows = {} THEN {<<>>}
    ELSE UNION {{<<r>> \o s : s \in SortedByCount(rows \ {r})} :
                   r \in {x \in rows : \A y \in rows : x.count >= y.count}}

HandoverInit ==
    /\ ACTIVITY_PATTERNS = ACTIVITY_PATTERNS_INIT
    /\ log \in {<<c>> : c \in HandoverCases} \cup SeqsUpTo(HandoverLogCases, MaxLog)
    /\ category_name \in {K_3_way_after, K_consignment}
    /\ pc = "idle"
    /\ FilterIdle
    /\ DriverIdle
    /\ HelperIdle
    /\ PreprocIdle
    /\ SplitIdle
    /\ FrequencyIdle
    /\ case_idx = 0
    /\ pair_i = 0
    /\ handover_counts = <<>>
    /\ total_handovers = 0
    /\ df = <<>>
    /\ apc = "loop"

\* one pass of the inner loop: events i and i + 1 of the current case
ComparePair ==
    /\ apc = "loop"
    /\ case_idx < Len(log)
    /\ LET events == log[case_idx + 1].events
       IN /\ pair_i < Len(events) - 1
          /\ LET current_role == Get(events[pair_i + 1], ROLE, "UNKNOWN")
                 next_role == Get(events[pair_i + 2], ROLE, "UNKNOWN")
             IN IF handover_condition(current_role, next_role)
                THEN /\ handover_counts' =
                            Increment(handover_counts, <<current_role, next_role>>)
                     /\ total_handovers' = total_handovers + 1
                ELSE UNCHANGED <<handover_counts, total_handovers>>
    /\ pair_i' = pair_i + 1
    /\ UNCHANGED <<case_idx, df, apc>>
    /\ UNCHANGED <<ACTIVITY_PATTERNS, filterVars, driverVars, helperVars,
                   preprocVars, splitVars, frequencyVars>>

\* the inner loop is over: the outer loop takes the next case
NextCase ==
    /\ apc = "loop"
    /\ case_idx < Len(log)
    /\ pair_i >= Len(log[case_idx + 1].events) - 1
    /\ case_idx' = case_idx + 1
    /\ pair_i' = 0
    /\ UNCHANGED <<handover_counts, total_handovers, df, apc>>
    /\ UNCHANGED <<ACTIVITY_PATTERNS, filterVars, driverVars, helperVars,
                   preprocVars, splitVars, frequencyVars>>

\* after the loop: the frame of the counted pairs, or the empty frame
BuildFrame ==
    /\ apc = "loop"
    /\ case_idx = Len(log)
    /\ df' \in SortedByCount(FrameRows(handover_counts, total_handovers, category_name))
    /\ apc' = "returned"
    /\ UNCHANGED <<case_idx, pair_i, handover_counts, total_handovers>>
    /\ UNCHANGED <<ACTIVITY_PATTERNS, filterVars, driverVars, helperVars,
                   preprocVars, splitVars, frequencyVars>>

HandoverNext == ComparePair \/ NextCase \/ BuildFrame

HandoverSpec == HandoverInit /\ [][HandoverNext]_vars

(***************************************************************************)
(* PreprocSpec: step 5 of log_preprocessing.process_xes_file, the export   *)
(* of the cases that belong to no configured group.  Steps 1 to 4 have     *)
(* left the filtered log and the two sets of case ids; a case is its       *)
(* attribute dict, the case id being the number of the case.               *)
(***************************************************************************)
CASE_ID_ATTRIBUTE == "concept:name"

PreprocCase(id) == [attributes |-> (CASE_ID_ATTRIBUTE :> id), events |-> <<>>]

\* case_id not in grouped_case_ids and case_id not in incomplete_case_ids
is_other_case(case, grouped, incomplete) ==
    /\ case.attributes[CASE_ID_ATTRIBUTE] \notin grouped
    /\ case.attributes[CASE_ID_ATTRIBUTE] \notin incomplete

\* the second pass over filtered_log (lines 260-264)
RECURSIVE collect_other_cases(_, _, _)
collect_other_cases(cases, grouped, incomplete) ==
    IF cases = <<>> THEN <<>>
    ELSE (IF is_other_case(Head(cases), grouped, incomplete) THEN <<Head(cases)>> ELSE <<>>)
         \o collect_other_cases(Tail(cases), grouped, incomplete)

\* a final export that writes what is left in the batch and never collects
\* the cases again
final_other_export_remaining_batch(cases, grouped, incomplete, count, batch, file) ==
    IF count > 0 /\ batch # <<>> THEN <<batch>> ELSE file

\* lines 255-280: the content of group_other.xes after the final export
final_other_export(cases, grouped, incomplete, count, batch, file) ==
    IF count > 0
    THEN IF count > BATCH_SIZE
         THEN <<collect_other_cases(cases, grouped, incomplete)>>
         ELSE IF batch # <<>> THEN <<batch>> ELSE file
    ELSE file

PreprocInit ==
    /\ ACTIVITY_PATTERNS = ACTIVITY_PATTERNS_INIT
    /\ log = <<>>
    /\ category_name = <<>>
    /\ pc = "idle"
    /\ FilterIdle
    /\ DriverIdle
    /\ HelperIdle
    /\ HandoverIdle
    /\ SplitIdle
    /\ FrequencyIdle
    /\ \E n \in 0..MaxCases :
          /\ filtered_log = [k \in 1..n |-> PreprocCase(k)]
          /\ grouped_case_ids \in SUBSET (1..n)
          /\ incomplete_case_ids \in SUBSET ((1..n) \ grouped_case_ids)
    /\ other_count = 0
    /\ other_cases_batch = <<>>
    /\ group_other = <<>>
    /\ case_pos = 0
    /\ ppc = "collect"

\* one pass of the loop of lines 229-252
CollectCase ==
    /\ ppc = "collect"
    /\ case_pos < Len(filtered_log)
    /\ LET case == filtered_log[case_pos + 1]
           batch == Append(other_cases_batch, case)
           count == other_count + 1
       IN IF is_other_case(case, grouped_case_ids, incomplete_case_ids)
          THEN /\ other_count' = count
               /\ IF Len(batch) >= BATCH_SIZE
                  THEN /\ group_other' = IF count = Len(batch) THEN <<batch>>
                                         ELSE group_other
                       /\ other_cases_batch' = <<>>
                  ELSE /\ other_cases_batch' = batch
                       /\ UNCHANGED group_other
          ELSE UNCHANGED <<other_count, other_cases_batch, group_other>>
    /\ case_pos' = case_pos + 1
    /\ UNCHANGED <<filtered_log, grouped_case_ids, incomplete_case_ids, ppc>>
    /\ UNCHANGED <<ACTIVITY_PATTERNS, filterVars, driverVars, helperVars,
                   handoverVars, splitVars, frequencyVars>>

\* lines 254-282, after the loop
FinalExport ==
    /\ ppc = "collect"
    /\ case_pos = Len(filtered_log)
    /\ group_other' = final_other_export(filtered_log, grouped_case_ids,
                                         incomplete_case_ids, other_count,
                                         other_cases_batch, group_other)
    /\ ppc' = "done"
    /\ UNCHANGED <<filtered_log, grouped_case_ids, incomplete_case_ids, other_count,
                   other_cases_batch, case_pos>>
    /\ UNCHANGED <<ACTIVITY_PATTERNS, filterVars, driverVars, helperVars,
                   handoverVars, splitVars, frequencyVars>>

PreprocNext == CollectCase \/ FinalExport

PreprocSpec == PreprocInit /\ [][PreprocNext]_vars

(***************************************************************************)
(* SplitSpec: handover_preprocessing.split_on_resource_type(input_log,     *)
(* output_dir).  A resource is the tuple of its characters; a KeyError     *)
(* leaves the function through spc = "raised".                             *)
(***************************************************************************)
S_NONE == <<"N","O","N","E">>
S_batch_ == <<"b","a","t","c","h","_">>
S_user_ == <<"u","s","e","r","_">>
S_batch_00 == S_batch_ \o <<"0","0">>
S_user_000 == S_user_ \o <<"0","0","0">>
S_user_001 == S_user_ \o <<"0","0","1">>
S_admin == <<"a","d","m","i","n">>

\* resources_handover_preprocessing.get_resource_type
get_resource_type(resource) ==
    IF resource = S_NONE THEN "NONE"
    ELSE IF startswith(resource, S_batch_) THEN "Batch"
    ELSE IF startswith(resource, S_user_) THEN "User"
    ELSE "Other"

E_NoResource == ROLE :> "A"
E_ResourceNone == RESOURCE :> S_NONE
E_Batch == RESOURCE :> S_batch_00
E_User0 == RESOURCE :> S_user_000
E_User1 == RESOURCE :> S_user_001
E_Admin == RESOURCE :> S_admin

\* events: without org:resource, with the resource "NONE", of a batch
\* resource, of two users, and of a resource of no known type
SplitEvents == {E_NoResource, E_ResourceNone, E_Batch, E_User0, E_User1, E_Admin}

SplitTraces ==
    {[attributes |-> a, events |-> e] :
        a \in {<<>>, CASE_ID_ATTRIBUTE :> 1}, e \in SeqsUpTo(SplitEvents, MaxEvents)}

\* the traces of the logs that hold several traces
SplitLogTraces ==
    {[attributes |-> CASE_ID_ATTRIBUTE :> 2, events |-> e] :
        e \in {<<E_User0, E_Batch, E_User1>>, <<E_NoResource, E_User1>>,
               <<E_User0, E_Admin>>}}

SublogsInit == [rtype \in {"NONE", "Batch", "User"} |-> <<>>]
EventsByTypeInit == [rtype \in {"NONE", "Batch", "User", "Other"} |-> <<>>]
TypeOrder == <<"NONE", "Batch", "User", "Other">>

\* lines 75-83: the events of a trace by resource type, and the number of
\* events that took the else branch
RECURSIVE collect_events_by_type(_, _, _)
collect_events_by_type(events, by_type, other) ==
    IF events = <<>> THEN [events_by_type |-> by_type, other_count |-> other]
    ELSE LET event == Head(events)
             resource == Get(event, RESOURCE, S_NONE)
             rtype == get_resource_type(resource)
         IN IF rtype \in DOMAIN by_type
            THEN collect_events_by_type(
                     Tail(events), [by_type EXCEPT ![rtype] = Append(@, event)], other)
            ELSE collect_events_by_type(
                     Tail(events), [by_type EXCEPT !["Other"] = Append(@, event)],
                     other + 1)

\* lines 85-94: the traces built from events_by_type are appended in dict
\* order; sublogs[rtype] of a missing key raises KeyError and ends the loop
RECURSIVE append_new_traces(_, _, _, _)
append_new_traces(types, by_type, attributes, logs) ==
    IF types = <<>> THEN [sublogs |-> logs, raised |-> FALSE]
    ELSE LET rtype == Head(types)
             new_trace == [attributes |-> attributes, events |-> by_type[rtype]]
         IN IF by_type[rtype] = <<>>
            THEN append_new_traces(Tail(types), by_type, attributes, logs)
            ELSE IF rtype \in DOMAIN logs
            THEN append_new_traces(Tail(types), by_type, attributes,
                                   [logs EXCEPT ![rtype] = Append(@, new_trace)])
            ELSE [sublogs |-> logs, raised |-> TRUE]

SplitInit ==
    /\ ACTIVITY_PATTERNS = ACTIVITY_PATTERNS_INIT
    /\ log = <<>>
    /\ category_name = <<>>
    /\ pc = "idle"
    /\ FilterIdle
    /\ DriverIdle
    /\ HelperIdle
    /\ HandoverIdle
    /\ PreprocIdle
    /\ FrequencyIdle
    /\ input_log \in {<<t>> : t \in SplitTraces} \cup SeqsUpTo(SplitLogTraces, MaxLog)
    /\ sublogs = SublogsInit
    /\ split_other_count = 0
    /\ trace_idx = 0
    /\ exported = {}
    /\ split_ret = <<>>
    /\ spc = "loop"

\* one pass of the loop of lines 73-94
SplitTrace ==
    /\ spc = "loop"
    /\ trace_idx < Len(input_log)
    /\ LET trace == input_log[trace_idx + 1]
           collected == collect_events_by_type(trace.events, EventsByTypeInit,
                                               split_other_count)
           appended == append_new_traces(TypeOrder, collected.events_by_type,
                                         trace.attributes, sublogs)
       IN /\ split_other_count' = collected.other_count
          /\ sublogs' = appended.sublogs
          /\ IF appended.raised
             THEN spc' = "raised" /\ UNCHANGED trace_idx
             ELSE spc' = "loop" /\ trace_idx' = trace_idx + 1
    /\ UNCHANGED <<input_log, exported, split_ret>>
    /\ UNCHANGED <<ACTIVITY_PATTERNS, filterVars, driverVars, helperVars,
                   handoverVars, preprocVars, frequencyVars>>

\* lines 96-107: the sublogs that hold a trace are exported, the User
\* sublog is returned
ExportSublogs ==
    /\ spc = "loop"
    /\ trace_idx = Len(input_log)
    /\ exported' = {[rtype |-> rtype, sublog |-> sublogs[rtype]] :
                       rtype \in {t \in DOMAIN sublogs : Len(sublogs[t]) > 0}}
    /\ split_ret' = sublogs["User"]
    /\ spc' = "returned"
    /\ UNCHANGED <<input_log, sublogs, split_other_count, trace_idx>>
    /\ UNCHANGED <<ACTIVITY_PATTERNS, filterVars, driverVars, helperVars,
                   handoverVars, preprocVars, frequencyVars>>

SplitNext == SplitTrace \/ ExportSublogs

SplitSpec == SplitInit /\ [][SplitNext]_vars

(***************************************************************************)
(* FrequencySpec: handover_frequency.calculations_per_category on the log  *)
(* of one input file: the loop over its traces and what the file adds to   *)
(* the per-category dicts.  A timestamp is a number of hours; a dict that  *)
(* is read in insertion order is the sequence of its (key, value) pairs.   *)
(* The CSV and text reports are not kept.                                  *)
(***************************************************************************)
TIMESTAMP == "time:timestamp"

None == [t |-> "none", s |-> <<>>, b |-> FALSE, n |-> 0]
Pair(x, y) == [t |-> "tuple", s |-> <<x, y>>, b |-> FALSE, n |-> 0]

E_T0RoleA == (TIMESTAMP :> 0) @@ (ROLE :> "A")
E_T5RoleB == (TIMESTAMP :> 5) @@ (ROLE :> "B")
E_T2 == TIMESTAMP :> 2
E_UntimedRoleA == ROLE :> "A"

\* events: with a timestamp and a role, with a timestamp only, with a role
\* only
FrequencyEvents == {E_T0RoleA, E_T5RoleB, E_T2, E_UntimedRoleA}

S_c1 == <<"c","1">>
S_c2 == <<"c","2">>

FrequencyTraces ==
    {[attributes |-> a, events |-> e] :
        a \in {<<>>, NAME :> Str(S_c1)}, e \in SeqsUpTo(FrequencyEvents, MaxEvents)}

\* the traces of the logs that hold several traces
FrequencyLogTraces ==
    {[attributes |-> NAME :> Str(S_c1), events |-> <<E_T0RoleA, E_T5RoleB>>],
     [attributes |-> NAME :> Str(S_c2), events |-> <<E_T0RoleA>>],
     [attributes |-> NAME :> Str(S_c2), events |-> <<E_T0RoleA, E_UntimedRoleA>>]}

\* [event[key] for event in trace if key in event]
RECURSIVE ValuesOf(_, _)
ValuesOf(events, key) ==
    IF events = <<>> THEN <<>>
    ELSE (IF key \in DOMAIN Head(events) THEN <<Head(events)[key]>> ELSE <<>>)
         \o ValuesOf(Tail(events), key)

\* the loop of lines 23-30 from position k on
RECURSIVE count_handovers(_, _, _, _)
count_handovers(roles, k, between, inside) ==
    IF k > Len(roles) THEN <<between, inside>>
    ELSE IF roles[k - 1] # roles[k]
         THEN count_handovers(roles, k + 1, between + 1, inside)
         ELSE IF roles[k - 1] = "unclear" \/ roles[k] = "unclear"
         THEN count_handovers(roles, k + 1, between + 1, inside)
         ELSE count_handovers(roles, k + 1, between, inside + 1)

calculate_handovers(trace) == count_handovers(ValuesOf(trace.events, ROLE), 2, 0, 0)

SeqMin(seq) == CHOOSE x \in {seq[k] : k \in 1..Len(seq)} : \A k \in 1..Len(seq) : x <= seq[k]
SeqMax(seq) == CHOOSE x \in {seq[k] : k \in 1..Len(seq)} : \A k \in 1..Len(seq) : x >= seq[k]

\* lines 33-44; the branch of line 39 evaluates 0, 1 and returns nothing,
\* so the call yields None
calculate_case_duration(trace) ==
    IF Len(trace.events) < 2 THEN Pair(0, 1)
    ELSE LET timestamps == ValuesOf(trace.events, TIMESTAMP)
         IN IF Len(timestamps) < 2 THEN None
            ELSE Pair(SeqMax(timestamps) - SeqMin(timestamps), 0)

\* d[key] = value on a dict kept as its sequence of (key, value) pairs
SetItem(d, key, value) ==
    IF \E k \in 1..Len(d) : d[k][1] = key
    THEN [k \in 1..Len(d) |-> IF d[k][1] = key THEN <<key, value>> ELSE d[k]]
    ELSE Append(d, <<key, value>>)

\* list(d.values())
DictValues(d) == [k \in 1..Len(d) |-> d[k][2]]

FrequencyInit ==
    /\ ACTIVITY_PATTERNS = ACTIVITY_PATTERNS_INIT
    /\ log \in {<<t>> : t \in FrequencyTraces} \cup SeqsUpTo(FrequencyLogTraces, MaxLog)
    /\ category_name = <<>>
    /\ pc = "idle"
    /\ FilterIdle
    /\ DriverIdle
    /\ HelperIdle
    /\ HandoverIdle
    /\ PreprocIdle
    /\ SplitIdle
    /\ trace_pos = 0
    /\ number_of_events = <<>>
    /\ one_activity_in_trace = <<>>
    /\ between_handovers_per_case = <<>>
    /\ inside_handovers_per_case = <<>>
    /\ durations_per_case = <<>>
    /\ per_category = <<>>
    /\ fqpc = "loop"

\* one pass of the loop of lines 64-76; unpacking None into two names
\* raises TypeError, which nothing in the function catches
ProcessTrace ==
    /\ fqpc = "loop"
    /\ trace_pos < Len(log)
    /\ LET trace == log[trace_pos + 1]
           case_id == Get(trace.attributes, NAME, None)
           handovers == calculate_handovers(trace)
           returned == calculate_case_duration(trace)
       IN /\ number_of_events' = Append(number_of_events, Len(trace.events))
          /\ IF Len(trace.events) <= 1
             THEN /\ one_activity_in_trace' = Append(one_activity_in_trace, case_id)
                  /\ trace_pos' = trace_pos + 1
                  /\ UNCHANGED <<between_handovers_per_case, inside_handovers_per_case,
                                 durations_per_case, fqpc>>
             ELSE /\ between_handovers_per_case' =
                         SetItem(between_handovers_per_case, case_id, handovers[1])
                  /\ inside_handovers_per_case' =
                         SetItem(inside_handovers_per_case, case_id, handovers[2])
                  /\ UNCHANGED one_activity_in_trace
                  /\ IF returned.t = "tuple"
                     THEN /\ durations_per_case' =
                                 SetItem(durations_per_case, case_id, returned.s[1])
                          /\ trace_pos' = trace_pos + 1
                          /\ UNCHANGED fqpc
                     ELSE /\ fqpc' = "raised"
                          /\ UNCHANGED <<durations_per_case, trace_pos>>
    /\ UNCHANGED per_category
    /\ UNCHANGED <<ACTIVITY_PATTERNS, filterVars, driverVars, helperVars,
                   handoverVars, preprocVars, splitVars>>

\* lines 93-105: what the file adds to the per-category dicts
StoreCategory ==
    /\ fqpc = "loop"
    /\ trace_pos = Len(log)
    /\ per_category' =
          [between_handovers |-> DictValues(between_handovers_per_case),
           inside_handovers |-> DictValues(inside_handovers_per_case),
           duration_null_counts |-> Len(one_activity_in_trace),
           duration |-> DictValues(durations_per_case),
           number_of_events |-> number_of_events]
    /\ fqpc' = "file_done"
    /\ UNCHANGED <<trace_pos, number_of_events, one_activity_in_trace,
                   between_handovers_per_case, inside_handovers_per_case,
                   durations_per_case>>
    /\ UNCHANGED <<ACTIVITY_PATTERNS, filterVars, driverVars, helperVars,
                   handoverVars, preprocVars, splitVars>>

FrequencyNext == ProcessTrace \/ StoreCategory

FrequencySpec == FrequencyInit /\ [][FrequencyNext]_vars

(***************************************************************************)
(* Properties                                                              *)
(***************************************************************************)
Range(l) == {l[k] : k \in 1..Len(l)}

\* the number of violation reasons of a reason list: its entries other than
\* the canonical "Compliant"
ViolationCount(rs) == Cardinality({k \in 1..Len(rs) : rs[k] # "Compliant"})

\* C1, as stated: the reason list a checker returns is empty if and only if
\* the returned flag is true.
C1_EmptyIffCompliant ==
    pc = "checked" => ((Len(reasons) = 0) <=> is_compliant)

\* C1, amended: the reason list a checker returns is never empty, and it
\* holds no violation reason (no entry other than "Compliant") if and only if
\* the returned flag is true.
C1_NoViolationIffCompliant ==
    pc = "checked" =>
        /\ Len(reasons) >= 1
        /\ (ViolationCount(reasons) = 0) <=> is_compliant

C1_Witness ==
    /\ pc = "checked"
    /\ category_name = K_3_way_before
    /\ is_compliant
    /\ Len(reasons) = 1

\* C2: a compliant verdict carries exactly ["Compliant"]; a non-compliant
\* verdict carries a non-empty reason list that never contains "Compliant".
C2_CanonicalReason ==
    pc = "checked" =>
        /\ is_compliant => reasons = <<"Compliant">>
        /\ ~is_compliant => (reasons # <<>> /\ "Compliant" \notin Range(reasons))

C2_Witness ==
    /\ pc = "checked"
    /\ category_name = K_2_way
    /\ ~is_compliant
    /\ Len(reasons) >= 2

\* C3: with a category that is not one of the four, the filter fails with an
\* error: it returns nothing, neither a compliant nor a non-compliant log.
C3_UnknownCategoryRaises ==
    category_name \notin compliance_checkers =>
        /\ pc \in {"entry", "raised"}
        /\ ~result.returned

\* C4: whenever the filter has returned, for any log and any category name,
\* compliant_cases + non_compliant_cases = total_cases in its statistics.
C4_CountsSumToTotal ==
    result.returned =>
        result.compliance_stats.compliant_cases
          + result.compliance_stats.non_compliant_cases
        = result.compliance_stats.total_cases

IsIncreasing(l) == \A a, b \in 1..Len(l) : a < b => l[a] < l[b]

\* C5: for a recognized category the returned logs partition the input log:
\* each case is in exactly one of them, in the compliant one if and only if
\* its verdict is compliant, and each log keeps the input order.
C5_Partition ==
    (result.returned /\ category_name \in compliance_checkers) =>
        /\ Range(result.compliant_log) \cup Range(result.non_compliant_log) = 1..Len(log)
        /\ Range(result.compliant_log) \cap Range(result.non_compliant_log) = {}
        /\ \A k \in 1..Len(log) :
              k \in Range(result.compliant_log)
                <=> checker_of(category_name, log[k]).is_compliant
        /\ IsIncreasing(result.compliant_log)
        /\ IsIncreasing(result.non_compliant_log)

C5_Witness ==
    /\ result.returned
    /\ category_name \in compliance_checkers
    /\ result.compliant_log # <<>>
    /\ result.non_compliant_log # <<>>

\* the top-level checks of a category other than the value check, in the
\* order of its rules: whether the case violates the check, and its reason
TopLevelChecks(category, case) ==
    LET activities == get_activity_names(case.events)
        attributes == get_case_attributes(case)
        no_gr == [violated |-> ~has_activity_pattern(activities, ACTIVITY_PATTERNS.goods_receipt),
                  reason |-> "Missing goods receipt activity"]
        no_ir == [violated |-> ~has_activity_pattern(activities, ACTIVITY_PATTERNS.invoice_receipt),
                  reason |-> "Missing invoice receipt activity"]
        gr_true == [violated |-> ~flag_is(attributes, "Goods Receipt", S_true),
                    reason |-> "Goods receipt flag is not set to true"]
        verif_false == [violated |-> ~flag_is(attributes, "GR-based Inv. Verif.", S_false),
                        reason |-> "GR-based invoice verification flag is not set to false"]
    IN IF category = K_3_way_after THEN
           <<no_gr, no_ir,
             [violated |-> ~check_sequence_constraint(activities,
                               ACTIVITY_PATTERNS.goods_receipt, ACTIVITY_PATTERNS.invoice_receipt),
              reason |-> "Invoice received before goods receipt"],
             [violated |-> ~flag_is(attributes, "GR-Based Inv. Verif.", S_true),
              reason |-> "GR-based invoice verification flag is not set to true"],
             gr_true>>
       ELSE IF category = K_3_way_before THEN
           <<no_gr, no_ir, verif_false, gr_true,
             [violated |-> ~has_activity_pattern(activities,
                               ACTIVITY_PATTERNS.payment_block_removed),
              reason |-> "Payment block was not removed, which is not allowed"],
             [violated |-> ~check_sequence_constraint(activities,
                               ACTIVITY_PATTERNS.goods_receipt,
                               ACTIVITY_PATTERNS.payment_block_removed),
              reason |-> "Payment block was removed before goods receipt"]>>
       ELSE IF category = K_2_way THEN
           <<no_ir, verif_false,
             [violated |-> ~flag_is(attributes, "Goods Receipt", S_false),
              reason |-> "Goods receipt flag is not set to false"]>>
       ELSE
           <<no_gr, verif_false, gr_true,
             [violated |-> has_activity_pattern(activities, ACTIVITY_PATTERNS.invoice_receipt),
              reason |-> "Invoice receipt activity found at purchase order level, which is not allowed for consignment"]>>

\* what the value check of the category reports (consignment has none)
ValueReasons(category, case) ==
    IF category \in {K_3_way_after, K_3_way_before}
    THEN check_3way_value_compliance(case).violations
    ELSE IF category = K_2_way THEN check_2way_value_compliance(case).violations
    ELSE <<>>

RECURSIVE ViolatedReasons(_)
ViolatedReasons(checks) ==
    IF checks = <<>> THEN <<>>
    ELSE (IF Head(checks).violated THEN <<Head(checks).reason>> ELSE <<>>)
         \o ViolatedReasons(Tail(checks))

\* C6: every top-level check is evaluated whatever the earlier ones gave: a
\* non-compliant reason list is the reasons of all violated top-level
\* checks in rule order, followed by what the value check reports, so a case
\* violating k top-level checks (the value check included) has at least k
\* reasons.
C6_AllChecksRun ==
    pc = "checked" =>
        LET violated == ViolatedReasons(TopLevelChecks(category_name, log[1]))
            value == ValueReasons(category_name, log[1])
            k == Len(violated) + (IF value # <<>> THEN 1 ELSE 0)
        IN k > 0 => (reasons = violated \o value /\ Len(reasons) >= k)

C6_Witness ==
    /\ pc = "checked"
    /\ category_name = K_3_way_before
    /\ Len(ViolatedReasons(TopLevelChecks(category_name, log[1]))) >= 3
    /\ ValueReasons(category_name, log[1]) # <<>>
    /\ Len(reasons) >= 4

\* C7: for every recognized category, evaluating a case never raises,
\* whatever attributes or event fields are missing or malformed.
C7_NeverRaises == pc # "raised"

C9_EvaluationReadsOnly ==
    [][log' = log /\ ACTIVITY_PATTERNS' = ACTIVITY_PATTERNS]_vars

C9_Witness ==
    /\ pc = "checked"
    /\ "Goods Receipt" \notin DOMAIN log[1].attributes
    /\ Len(log[1].events) >= 2
    /\ ~is_compliant

Steps(k) == {journal[j].step : j \in {n \in 1..Len(journal) : journal[n].file = k}}
Entries(k, step) == {journal[j] : j \in {n \in 1..Len(journal) :
                                            journal[n].file = k /\ journal[n].step = step}}

\* what the driver did with file k: it tried to load it; unless the load
\* failed it ran the filter; unless the filter raised it saved every
\* non-empty filtered log, unless a save failed
Handled(k) ==
    /\ Steps(k) \cap {"loaded", "load_failed"} # {}
    /\ "loaded" \in Steps(k) =>
          Steps(k) \cap {"evaluated", "evaluation_failed"} # {}
    /\ \A e \in Entries(k, "evaluated") :
          \/ "save_failed" \in Steps(k)
          \/ /\ e.compliant > 0 => "saved_compliant" \in Steps(k)
             /\ e.non_compliant > 0 => "saved_non_compliant" \in Steps(k)

\* C10: a failure while loading, evaluating or saving one file never aborts
\* the run: a run over at least one .xes file reaches the final summary, and
\* by then every file with a recognizable category has been loaded,
\* evaluated and saved as far as its own failures allowed.
C10_BatchNeverAborts ==
    /\ [](dpc = "summary" =>
            \A k \in 1..Len(xes_files) :
                category_of(xes_files[k]) # <<>> => Handled(k))
    /\ [](dpc = "for" => <>(dpc = "summary"))

C10_Witness ==
    /\ dpc = "summary"
    /\ Len(xes_files) = 2
    /\ "load_failed" \in Steps(1)
    /\ "saved_compliant" \in Steps(2)

\* the counts the filter returned for file k (its "evaluated" journal entry)
RealCounts(k) ==
    LET e == CHOOSE x \in Entries(k, "evaluated") : TRUE
    IN [total_cases |-> e.compliant + e.non_compliant,
        compliant |-> e.compliant,
        non_compliant |-> e.non_compliant]

Failed(k) == Steps(k) \cap {"load_failed", "evaluation_failed", "save_failed"} # {}

ReportedCounts(c) ==
    [total_cases |-> summary[c].total_cases,
     compliant |-> summary[c].compliant,
     non_compliant |-> summary[c].non_compliant]

\* C11: in the final summary a file/category whose load, evaluation or save
\* raised is omitted or reported with counts of 0, and every other
\* category is reported with the counts its filter run returned.
C11_FailedFileNotReported ==
    dpc = "summary" =>
        \A k \in 1..Len(xes_files) :
            LET c == category_of(xes_files[k])
            IN c # <<>> =>
                 IF Failed(k)
                 THEN \/ c \notin DOMAIN summary
                      \/ ReportedCounts(c) = [total_cases |-> 0, compliant |-> 0,
                                              non_compliant |-> 0]
                 ELSE /\ c \in DOMAIN summary
                      /\ ReportedCounts(c) = RealCounts(k)

\* pattern p occurs in name n at some offset, letters compared without case
OccursIgnoringCase(n, p) ==
    \E off \in 0..(Len(n) - Len(p)) :
        \A j \in 1..Len(p) : LowerChar(n[off + j]) = LowerChar(p[j])

\* the 0-based indices of the names in which some pattern of the list occurs
MatchingIndices(names, patterns) ==
    {k - 1 : k \in {j \in 1..Len(names) :
                      \E q \in 1..Len(patterns) : OccursIgnoringCase(names[j], patterns[q])}}

\* C12: check_sequence_constraint(names, A, B) is true if and only if no
\* name matches A, or no name matches B, or the largest index of a name
\* matching A is strictly smaller than the smallest index of a name matching B.
C12_SequenceConstraint ==
    hpc = "check_sequence_constraint" =>
        LET A == MatchingIndices(arg_activities, arg_first)
            B == MatchingIndices(arg_activities, arg_second)
        IN ret <=> \/ A = {}
                   \/ B = {}
                   \/ \E a \in A, b \in B :
                        /\ \A x \in A : x <= a
                        /\ \A y \in B : b <= y
                        /\ a < b

\* repeated occurrences of which one is out of order: goods, invoice, goods
C12_Witness ==
    /\ hpc = "check_sequence_constraint"
    /\ arg_activities = <<N_GoodsReceiptForItemX, S_RecordInvoiceReceipt, N_RECORD_GOODS_RECEIPT>>
    /\ arg_first = <<S_RecordGoodsReceipt>>
    /\ arg_second = <<P_record_invoice_receipt>>
    /\ ret = FALSE

\* C13: has_activity_pattern(names, patterns) is true if and only if some
\* pattern occurs in some name as a substring, compared case-insensitively;
\* <<"Record Goods Receipt for Item X">> matches <<"Record Goods Receipt">>,
\* and the result is false for an empty name list.
C13_HasPatternIsSubstringMatch ==
    hpc = "has_activity_pattern" =>
        /\ ret <=> \E j \in 1..Len(arg_activities), q \in 1..Len(arg_first) :
                      OccursIgnoringCase(arg_activities[j], arg_first[q])
        /\ (arg_activities = <<N_GoodsReceiptForItemX>> /\ arg_first = <<S_RecordGoodsReceipt>>)
              => ret
        /\ arg_activities = <<>> => ~ret

C13_Witness ==
    /\ hpc = "has_activity_pattern"
    /\ arg_activities = <<N_GoodsReceiptForItemX>>
    /\ arg_first = <<S_RecordGoodsReceipt>>
    /\ ret = TRUE

\* the positions of the events of a case whose activity name contains the
\* given activity, letters compared without case
EventsOf(case, activity) ==
    {k \in 1..Len(case.events) :
        /\ NAME \in DOMAIN case.events[k]
        /\ OccursIgnoringCase(case.events[k][NAME].s, activity)}

\* every event of the first set lies before every event of the second
AllBefore(first, second) == \A a \in first, b \in second : a < b

\* the attribute is absent, or its lower-cased string form is the expected value
AbsentOr(case, key, expected) ==
    key \in DOMAIN case.attributes => lower(py_str(case.attributes[key])) = expected

\* C14: in 3_way_after a case is compliant if and only if it has a goods
\* receipt and an invoice receipt, every goods receipt precedes every invoice
\* receipt, "GR-Based Inv. Verif." and "Goods Receipt" are each absent or
\* "true", and the 3-way value check reports nothing; the scenario case
\* (Create Purchase Order Item, Record Goods Receipt, Record Invoice Receipt,
\* Clear Invoice; both flags "true"; cumulative values [100]; PO item value
\* 100) is compliant.
C14_3wayAfterCompliantIff ==
    (pc = "checked" /\ category_name = K_3_way_after) =>
        LET case == log[1]
            goods == EventsOf(case, S_RecordGoodsReceipt)
            invoices == EventsOf(case, S_RecordInvoiceReceipt)
        IN /\ is_compliant <=>
                /\ goods # {}
                /\ invoices # {}
                /\ AllBefore(goods, invoices)
                /\ AbsentOr(case, "GR-Based Inv. Verif.", S_true)
                /\ AbsentOr(case, "Goods Receipt", S_true)
                /\ check_3way_value_compliance(case).violations = <<>>
           /\ case = C_Scenario1 => is_compliant

C14_Witness ==
    /\ pc = "checked"
    /\ category_name = K_3_way_after
    /\ log[1] = C_Scenario1
    /\ reasons = <<"Compliant">>

\* C15: in 3_way_after the reason "Invoice received before goods receipt" is
\* in the verdict if and only if the case has a goods receipt and an invoice
\* receipt and some invoice receipt lies before some goods receipt; a case
\* with invoice receipts only never gets it.
C15_WrongOrderReasonIff ==
    (pc = "checked" /\ category_name = K_3_way_after) =>
        LET case == log[1]
            goods == EventsOf(case, S_RecordGoodsReceipt)
            invoices == EventsOf(case, S_RecordInvoiceReceipt)
            reported == "Invoice received before goods receipt" \in Range(reasons)
        IN /\ reported <=>
                /\ goods # {}
                /\ invoices # {}
                /\ \E n \in invoices, g \in goods : n < g
           /\ (invoices # {} /\ goods = {}) => ~reported

\* the wrong order of scenario 2: Record Invoice Receipt, Record Goods Receipt
C15_Witness ==
    /\ pc = "checked"
    /\ category_name = K_3_way_after
    /\ log[1].events = <<E_InvoiceReceipt100, E_GoodsReceipt>>
    /\ "Invoice received before goods receipt" \in Range(reasons)

FlagRule(key, expected, reason) == [key |-> key, expected |-> expected, reason |-> reason]

\* the two flag rules of each category: the attribute key, the expected
\* value and the reason reported
FlagRules(category) ==
    IF category = K_3_way_after THEN
        {FlagRule("GR-Based Inv. Verif.", S_true,
                  "GR-based invoice verification flag is not set to true"),
         FlagRule("Goods Receipt", S_true, "Goods receipt flag is not set to true")}
    ELSE IF category = K_3_way_before THEN
        {FlagRule("GR-based Inv. Verif.", S_false,
                  "GR-based invoice verification flag is not set to false"),
         FlagRule("Goods Receipt", S_true, "Goods receipt flag is not set to true")}
    ELSE IF category = K_2_way THEN
        {FlagRule("GR-based Inv. Verif.", S_false,
                  "GR-based invoice verification flag is not set to false"),
         FlagRule("Goods Receipt", S_false, "Goods receipt flag is not set to false")}
    ELSE
        {FlagRule("GR-based Inv. Verif.", S_false,
                  "GR-based invoice verification flag is not set to false"),
         FlagRule("Goods Receipt", S_true, "Goods receipt flag is not set to true")}

\* C16: each flag rule reads one attribute under its exact key and compares
\* the lower-cased string form with the rule's expected value; its violation
\* is reported exactly when the attribute is present under that key with
\* another value (an absent attribute counts as the expected value).
C16_FlagRules ==
    pc = "checked" =>
        \A rule \in FlagRules(category_name) :
            rule.reason \in Range(reasons)
              <=> /\ rule.key \in DOMAIN log[1].attributes
                  /\ lower(py_str(log[1].attributes[rule.key])) # rule.expected

\* 3_way_after with the verification flag under the other spelling of the
\* key and a "Goods Receipt" flag that is false
C16_Witness ==
    /\ pc = "checked"
    /\ category_name = K_3_way_after
    /\ DOMAIN log[1].attributes = {"GR-based Inv. Verif.", "Goods Receipt"}
    /\ log[1].attributes["GR-based Inv. Verif."] = Str(S_false)
    /\ "Goods receipt flag is not set to true" \in Range(reasons)
    /\ "GR-based invoice verification flag is not set to true" \notin Range(reasons)

\* the case with the activity name taken off every event of the given
\* activity; the other fields of those events are kept
WithoutActivity(case, activity) ==
    [case EXCEPT !.events =
        [k \in 1..Len(case.events) |->
            IF k \in EventsOf(case, activity)
            THEN [f \in DOMAIN case.events[k] \ {NAME} |-> case.events[k][f]]
            ELSE case.events[k]]]

C18_RemovedBeforeGoodsIff ==
    (pc = "checked" /\ category_name = K_3_way_before) =>
        LET case == log[1]
            goods == EventsOf(case, S_RecordGoodsReceipt)
            removals == EventsOf(case, S_RemovePaymentBlock)
            reported == "Payment block was removed before goods receipt" \in Range(reasons)
        IN /\ reported <=>
                /\ goods # {}
                /\ removals # {}
                /\ ~AllBefore(goods, removals)
           /\ removals = {} =>
                /\ "Payment block was not removed, which is not allowed" \in Range(reasons)
                /\ ~reported

\* one of two goods receipts follows the removal
C18_Witness ==
    /\ pc = "checked"
    /\ category_name = K_3_way_before
    /\ log[1].events = <<E_GoodsReceipt, E_RemovePaymentBlock, E_GoodsReceipt>>
    /\ "Payment block was removed before goods receipt" \in Range(reasons)

\* the case without its monetary values: no "PO item value" attribute and no
\* cumulative net worth on any event
WithoutValues(case) ==
    [attributes |-> [f \in DOMAIN case.attributes \ {"PO item value"} |-> case.attributes[f]],
     events |-> [k \in 1..Len(case.events) |->
                    [f \in DOMAIN case.events[k] \ {CUM} |-> case.events[k][f]]]]

\* C19: in 2_way a case is compliant if and only if it has an invoice
\* receipt, "GR-based Inv. Verif." and "Goods Receipt" are each absent or
\* "false", and the 2-way value check reports nothing; goods-receipt
\* activities change nothing: verdict and reasons are those of the case with
\* the name taken off its goods-receipt events.
C19_2wayCompliantIff ==
    (pc = "checked" /\ category_name = K_2_way) =>
        LET case == log[1]
            without == check_2way_compliance(WithoutActivity(case, S_RecordGoodsReceipt))
        IN /\ is_compliant <=>
                /\ EventsOf(case, S_RecordInvoiceReceipt) # {}
                /\ AbsentOr(case, "GR-based Inv. Verif.", S_false)
                /\ AbsentOr(case, "Goods Receipt", S_false)
                /\ check_2way_value_compliance(case).violations = <<>>
           /\ without.is_compliant = is_compliant
           /\ without.reasons = reasons

\* a compliant 2-way case that has a goods receipt next to its invoice receipt
C19_Witness ==
    /\ pc = "checked"
    /\ category_name = K_2_way
    /\ EventsOf(log[1], S_RecordGoodsReceipt) # {}
    /\ EventsOf(log[1], S_RecordInvoiceReceipt) # {}
    /\ is_compliant

\* C20: in consignment a case is compliant if and only if it has a goods
\* receipt, no invoice receipt, "GR-based Inv. Verif." absent or "false" and
\* "Goods Receipt" absent or "true"; a case with both a goods receipt and an
\* invoice receipt is non-compliant with the reason "Invoice receipt activity
\* found at purchase order level, ..."; monetary values change nothing:
\* verdict and reasons are those of the case without its values.
C20_ConsignmentCompliantIff ==
    (pc = "checked" /\ category_name = K_consignment) =>
        LET case == log[1]
            goods == EventsOf(case, S_RecordGoodsReceipt)
            invoices == EventsOf(case, S_RecordInvoiceReceipt)
            without == check_consignment_compliance(WithoutValues(case))
        IN /\ is_compliant <=>
                /\ goods # {}
                /\ invoices = {}
                /\ AbsentOr(case, "GR-based Inv. Verif.", S_false)
                /\ AbsentOr(case, "Goods Receipt", S_true)
           /\ (goods # {} /\ invoices # {}) =>
                /\ ~is_compliant
                /\ "Invoice receipt activity found at purchase order level, which is not allowed for consignment"
                      \in Range(reasons)
           /\ without.is_compliant = is_compliant
           /\ without.reasons = reasons

\* scenario 3: a goods receipt and an invoice receipt, with values on both
C20_Witness ==
    /\ pc = "checked"
    /\ category_name = K_consignment
    /\ log[1].events = <<E_GoodsReceipt100, E_InvoiceReceipt100>>
    /\ log[1].attributes = "PO item value" :> Num(0)
    /\ reasons = <<"Invoice receipt activity found at purchase order level, which is not allowed for consignment">>

\* the number of events of the case with the given activity
CountOf(case, activity) == Cardinality(EventsOf(case, activity))

\* the positions of the events that carry a cumulative value
Carriers(case) == {k \in 1..Len(case.events) : CUM \in DOMAIN case.events[k]}

FirstOf(S) == CHOOSE x \in S : \A y \in S : x <= y
LastOf(S) == CHOOSE x \in S : \A y \in S : y <= x

\* the cumulative value of the last event, in case order, that carries one
FinalValue(case) == NumberOf(case.events[LastOf(Carriers(case))][CUM])

\* the PO item value of the case is a number, and its amount
HasNumericPO(case) == IsNumber(get_po_item_value(case))
POValue(case) == NumberOf(get_po_item_value(case))

R_NoInvoiceReceipts == "No invoice receipts found for value validation"
R_NoGoodsReceipts == "No goods receipts found for value validation"
R_CountsDiffer == "Number of goods receipts does not equal number of invoice receipts"
R_NoCumulativeValues == "No cumulative values found for validation"
R_ExpectedValue == "PO item value does not match expected value from invoice receipts"
R_ZeroPO == "PO item value is zero, which may indicate invalid data"
R_ZeroCumulative3way == "Cumulative value is zero but PO item value is non-zero"
R_ZeroCumulative2way == "Invoice value is zero but PO item value is non-zero"
R_InvoiceMismatch == "Invoice value does not match PO item value"

\* C21: the 3-way value check returns the missing-invoice reason alone when
\* the invoice-receipt count is 0, whatever the goods-receipt count, and
\* otherwise the missing-goods-receipt reason alone when the goods-receipt
\* count is 0; any other outcome (another reason, or an error of the
\* arithmetic) needs both counts positive.
C21_MissingCountsStopValueCheck ==
    hpc = "check_3way_value_compliance" =>
        LET invoice_count == CountOf(log[1], S_RecordInvoiceReceipt)
            gr_count == CountOf(log[1], S_RecordGoodsReceipt)
        IN /\ invoice_count = 0 => ret = Returned(<<R_NoInvoiceReceipts>>)
           /\ (invoice_count > 0 /\ gr_count = 0) => ret = Returned(<<R_NoGoodsReceipts>>)
           /\ (\/ ret.raised
               \/ Range(ret.violations) \ {R_NoInvoiceReceipts, R_NoGoodsReceipts} # {})
                 => (invoice_count > 0 /\ gr_count > 0)

\* no invoice receipt, a goods receipt, a cumulative value and a PO item
\* value no arithmetic accepts
C21_Witness ==
    /\ hpc = "check_3way_value_compliance"
    /\ log[1].events = <<E_GoodsReceipt, E_Nameless50>>
    /\ log[1].attributes = "PO item value" :> Str(S_abc)
    /\ ret = Returned(<<R_NoInvoiceReceipts>>)

C23_ZeroValues ==
    (hpc \in {"check_3way_value_compliance", "check_2way_value_compliance"} /\ ~ret.raised) =>
        LET case == log[1]
            three_way == hpc = "check_3way_value_compliance"
            reached == /\ Carriers(case) # {}
                       /\ three_way => /\ CountOf(case, S_RecordInvoiceReceipt) > 0
                                       /\ CountOf(case, S_RecordGoodsReceipt) > 0
            zero_po == HasNumericPO(case) /\ POValue(case) = 0
            zero_cumulative == IF three_way THEN R_ZeroCumulative3way ELSE R_ZeroCumulative2way
        IN /\ (reached /\ zero_po) => R_ZeroPO \in Range(ret.violations)
           /\ (reached /\ ~zero_po /\ FinalValue(case) = 0)
                 => zero_cumulative \in Range(ret.violations)
           /\ zero_po => ret.violations # <<>>

\* a PO item value of 0 that equals the final cumulative value
C23_Witness ==
    /\ hpc = "check_2way_value_compliance"
    /\ log[1].events = <<E_InvoiceReceipt0>>
    /\ log[1].attributes = "PO item value" :> Num(0)
    /\ ret = Returned(<<R_ZeroPO>>)

\* the case with the activity name taken off every event
WithoutAnyActivity(case) ==
    [case EXCEPT !.events =
        [k \in 1..Len(case.events) |->
            [f \in DOMAIN case.events[k] \ {NAME} |-> case.events[k][f]]]]

\* C24: the 2-way value check reports the mismatch violation exactly when
\* |po_item_value - final_cumulative_value| > 0.01, the final value being the
\* last cumulative value in case order; the number of invoice and goods
\* receipts changes nothing (the result is that of the case without any
\* activity name); without any cumulative value it returns only the
\* no-cumulative-values reason.
C24_2wayMismatch ==
    hpc = "check_2way_value_compliance" =>
        LET case == log[1]
        IN /\ Carriers(case) = {} => ret = Returned(<<R_NoCumulativeValues>>)
           /\ (Carriers(case) # {} /\ ~ret.raised) =>
                (R_InvoiceMismatch \in Range(ret.violations)
                   <=> Abs(POValue(case) - FinalValue(case)) > TOLERANCE)
           /\ ret = check_2way_value_compliance(WithoutAnyActivity(case))

\* the last of two different cumulative values is the one compared
C24_Witness ==
    /\ hpc = "check_2way_value_compliance"
    /\ log[1].events = <<E_InvoiceReceipt100, E_Nameless50>>
    /\ log[1].attributes = "PO item value" :> Num(5000)
    /\ ret = Returned(<<>>)

\* C25: get_po_item_value returns the attribute "PO item value" whenever it
\* is present, also when it is 0; otherwise the cumulative value of the first
\* event, in case order, that carries one; otherwise 0.
C25_PoItemValue ==
    hpc = "get_po_item_value" =>
        LET case == log[1]
        IN ret = IF "PO item value" \in DOMAIN case.attributes
                 THEN case.attributes["PO item value"]
                 ELSE IF Carriers(case) # {}
                 THEN case.events[FirstOf(Carriers(case))][CUM]
                 ELSE Num(0)

\* the attribute is 0 and the events carry other values
C25_Witness ==
    /\ hpc = "get_po_item_value"
    /\ log[1].events = <<E_InvoiceReceipt100, E_Nameless50>>
    /\ log[1].attributes = "PO item value" :> Num(0)
    /\ ret = Num(0)

\* C27: in the two 3-way rule sets a missing required activity is reported
\* twice: without an invoice receipt the case gets "Missing invoice receipt
\* activity" and the invoice value-validation reason; with an invoice receipt
\* but no goods receipt it gets "Missing goods receipt activity" and the
\* goods-receipt value-validation reason; missing both it gets the two
\* missing-activity reasons and, of the value-validation reasons, only the
\* invoice one.
C27_MissingActivityReportedTwice ==
    (pc = "checked" /\ category_name \in {K_3_way_after, K_3_way_before}) =>
        LET goods == EventsOf(log[1], S_RecordGoodsReceipt)
            invoices == EventsOf(log[1], S_RecordInvoiceReceipt)
            given == Range(reasons)
        IN /\ invoices = {} =>
                {"Missing invoice receipt activity", R_NoInvoiceReceipts} \subseteq given
           /\ (invoices # {} /\ goods = {}) =>
                {"Missing goods receipt activity", R_NoGoodsReceipts} \subseteq given
           /\ (invoices = {} /\ goods = {}) =>
                /\ "Missing goods receipt activity" \in given
                /\ R_NoGoodsReceipts \notin given

\* neither a goods receipt nor an invoice receipt
C27_Witness ==
    /\ pc = "checked"
    /\ category_name = K_3_way_before
    /\ log[1].events = <<E_RemovePaymentBlock>>
    /\ log[1].attributes = <<>>
    /\ reasons = <<"Missing goods receipt activity", "Missing invoice receipt activity",
                   R_NoInvoiceReceipts>>

\* the consecutive event pairs of a case, as pairs of roles
RolePairs(case) ==
    [k \in 1..(Len(case.events) - 1) |->
        <<Get(case.events[k], ROLE, "UNKNOWN"), Get(case.events[k + 1], ROLE, "UNKNOWN")>>]

RECURSIVE SumLengths(_)
SumLengths(seqs) ==
    IF seqs = <<>> THEN 0 ELSE Len(Head(seqs)) + SumLengths(Tail(seqs))

\* the number of consecutive event pairs of the whole log
ConsecutivePairs == SumLengths([k \in 1..Len(log) |-> RolePairs(log[k])])

\* C26: in analyze_handover_pairs a pair of consecutive events is recorded
\* as a handover only if the two userRole values differ; two consecutive
\* events with the same role, other than "unclear", are not counted.
C26_OnlyRoleChangesCounted ==
    \A pair \in DOMAIN handover_counts :
        pair[1] # pair[2] \/ pair[1] = "unclear"

\* what the code does: every consecutive pair is counted
C26_EveryPairCounted ==
    apc = "returned" => total_handovers = ConsecutivePairs

\* the positions in filtered_log of the cases that are in no group
OtherPositions ==
    {k \in 1..Len(filtered_log) :
        /\ filtered_log[k].attributes[CASE_ID_ATTRIBUTE] \notin grouped_case_ids
        /\ filtered_log[k].attributes[CASE_ID_ATTRIBUTE] \notin incomplete_case_ids}

\* written holds exactly the cases at the given positions of filtered_log,
\* each once and in log order
HoldsInLogOrder(written, positions) ==
    /\ Len(written) = Cardinality(positions)
    /\ \E at \in [1..Len(written) -> positions] :
          /\ \A j, k \in 1..Len(written) : j < k => at[j] < at[k]
          /\ \A j \in 1..Len(written) : written[j] = filtered_log[at[j]]

\* C28: when step 5 of process_xes_file has finished and n >= 1 filtered
\* cases belong to no configured group, group_other.xes as last written
\* holds exactly those n cases, each once and in log order; this includes
\* n = BATCH_SIZE, a multiple of it, and one more than it.
C28_OtherFileHoldsAllOtherCases ==
    (ppc = "done" /\ OtherPositions # {}) =>
        /\ group_other # <<>>
        /\ HoldsInLogOrder(group_other[1], OtherPositions)

\* a finished run with one more "other" case than a batch holds, among
\* cases of the groups
C28_Witness ==
    /\ ppc = "done"
    /\ Cardinality(OtherPositions) = BATCH_SIZE + 1
    /\ grouped_case_ids # {}
    /\ Len(group_other[1]) = BATCH_SIZE + 1

\* the resource type of an event: a missing org:resource counts as "NONE"
ResourceTypeOf(event) ==
    LET resource == Get(event, RESOURCE, S_NONE)
    IN IF resource = S_NONE THEN "NONE"
       ELSE IF Len(resource) >= 6 /\ SubSeq(resource, 1, 6) = S_batch_ THEN "Batch"
       ELSE IF Len(resource) >= 5 /\ SubSeq(resource, 1, 5) = S_user_ THEN "User"
       ELSE "Other"

RECURSIVE EventsOfType(_, _)
EventsOfType(events, rtype) ==
    IF events = <<>> THEN <<>>
    ELSE (IF ResourceTypeOf(Head(events)) = rtype THEN <<Head(events)>> ELSE <<>>)
         \o EventsOfType(Tail(events), rtype)

\* the output traces a type should get: per input trace that has events of
\* the type, one trace with the same attributes and those events in order
RECURSIVE ExpectedSublog(_, _)
ExpectedSublog(traces, rtype) ==
    IF traces = <<>> THEN <<>>
    ELSE (IF EventsOfType(Head(traces).events, rtype) = <<>> THEN <<>>
          ELSE <<[attributes |-> Head(traces).attributes,
                  events |-> EventsOfType(Head(traces).events, rtype)]>>)
         \o ExpectedSublog(Tail(traces), rtype)

HasOtherEvent(traces) ==
    \E k \in 1..Len(traces) : EventsOfType(traces[k].events, "Other") # <<>>

\* C29: split_on_resource_type terminates normally for every log, also one
\* with an event whose resource is neither "NONE" nor prefixed "batch_" or
\* "user_", and puts each event in exactly one output trace chosen by its
\* resource type, keeping event order and the trace's attributes.
C29_SplitsEveryLog ==
    /\ spc # "raised"
    /\ spc = "returned" =>
          \A rtype \in {"NONE", "Batch", "User"} :
              sublogs[rtype] = ExpectedSublog(input_log, rtype)

\* what the code does: it raises exactly on the logs that hold an event of
\* another resource type, and splits the other logs as described
C29_RaisesOnOtherResource ==
    /\ spc = "raised" => HasOtherEvent(input_log)
    /\ spc = "returned" =>
          /\ ~HasOtherEvent(input_log)
          /\ \A rtype \in {"NONE", "Batch", "User"} :
                sublogs[rtype] = ExpectedSublog(input_log, rtype)
          /\ split_ret = ExpectedSublog(input_log, "User")

\* the number of events of a trace that carry a timestamp
Timestamped(trace) ==
    Cardinality({k \in 1..Len(trace.events) : TIMESTAMP \in DOMAIN trace.events[k]})

\* C30: calculate_case_duration returns a (duration, flag) pair for every
\* trace, also for one with two or more events of which fewer than two
\* carry a timestamp, so the two-value unpacking in
\* calculations_per_category never fails.
C30_DurationIsAlwaysAPair ==
    /\ fqpc # "raised"
    /\ \A k \in 1..trace_pos : calculate_case_duration(log[k]).t = "tuple"

\* what the code does: the unpacking fails exactly at a trace with two or
\* more events of which fewer than two carry a timestamp
C30_RaisesOnFewTimestamps ==
    /\ fqpc = "raised" =>
          /\ Len(log[trace_pos + 1].events) >= 2
          /\ Timestamped(log[trace_pos + 1]) < 2
    /\ fqpc = "file_done" =>
          \A k \in 1..Len(log) :
              Len(log[k].events) < 2 \/ Timestamped(log[k]) >= 2

=============================================================================
